---- MODULE Spec2Model ----
(***************************************************************************)
(* Model of the playback orchestration of awraris:                         *)
(*   - the playlist play loop of handlePlaylistCommand ("play" action),    *)
(*   - handleYouTubeStream: the ad-hoc play of one track followed by the   *)
(*     playlist continuation, with playAndAwait as its single-track player,*)
(*   - one call of a routine that spawns the player (playAudioStream,      *)
(*     playAndAwait, an iteration of the play loop), with detectAudioPlayer*)
(*     and the events of the child process in detail,                      *)
(*   - the operations of the playlist store (playlists.ts).                *)
(*                                                                         *)
(* Node runs one callback at a time.  The code between two awaits is one   *)
(* action.  A promise continuation is a microtask: it runs before the next *)
(* event-loop callback, so the event of a child process and the code that  *)
(* follows the await it resolves are one action as well.  A SIGINT handler *)
(* is an event-loop callback and can run at every await.                   *)
(***************************************************************************)
EXTENDS Integers, Sequences, FiniteSets, TLC

\* ------------------------------------------------------------------ bounds
MaxQueue == 3
MaxPlaylists == 2
MaxStoreTracks == 3
MaxEvents == 3
MaxClock == 2
MaxOps == 4

\* ------------------------------------------------------------- data model
\* An absent (undefined) or empty id or url: both are falsy in the code.
None == ""
Ids == {"a", "b"}
\* The ids are interchangeable: the selected search result is the one with id a.
SelectedIds == {"a"}
StoredUrl == "s"
\* The url the stream resolver returns for an id, when it succeeds.
ResolvedUrl(id) == IF id = "a" THEN "yt-a" ELSE "yt-b"
\* StoredTrack {id?, url?}; title and addedAt play no part in sequencing.
Track == [id : Ids \cup {None}, url : {None, StoredUrl}]
\* An entry of a stored track list: a track, or null in a malformed file.
NullEntry == [kind |-> "null", id |-> None, url |-> None]
Entry == {[kind |-> "track", id |-> t.id, url |-> t.url] : t \in Track} \cup {NullEntry}
NoPlayer == "null"
PlayerNames == {"mpv"}

SeqsUpTo(S, n) == UNION {[1..k -> S] : k \in 0..n}
NoChild == -1
\* Index used in the log and in spawned for the primary (ad-hoc) track.
Primary == -1
\* The process of the command has not ended.
NoExit == -1

\* The store that holds the entries of flat, cut into playlists of the lengths lens.
RECURSIVE SumSeq(_)
SumSeq(q) == IF q = <<>> THEN 0 ELSE Head(q) + SumSeq(Tail(q))
RECURSIVE Split(_, _)
Split(flat, lens) ==
  IF lens = <<>> THEN <<>>
  ELSE <<[tracks |-> SubSeq(flat, 1, Head(lens))]>>
         \o Split(SubSeq(flat, Head(lens) + 1, Len(flat)), Tail(lens))

VARIABLES
  cmd,           \* which command this run of the CLI executes
  \* ---- handlePlaylistCommand, action "play"
  tracks,        \* p.tracks
  startIndex,    \* zero-based index computed from the prompt
  player,        \* what detectAudioPlayer finds on this system
  pc,            \* position of the async function
  i,             \* loop index (zero-based)
  url,           \* the local url of the current iteration
  currentChild,  \* track index of the child held in currentChild, or NoChild
  stopRequested,
  \* ---- environment and observation
  live,          \* track indices whose player process is running
  hung,          \* spawned processes that never exit by themselves
  killReq,       \* track indices whose process was sent kill("SIGINT")
  sigintLive,    \* processes that were running when a SIGINT was delivered
  attempted,     \* indices whose iteration was entered, in order
  resolveCalls,  \* <<index, id>> of each getYouTubeAudioStream call, in order
  detectCalls,   \* number of detectAudioPlayer calls
  spawned,       \* [track, player, url] of each spawn that returned a child
  failedPlay,    \* indices whose player failed (error event, throw, code # 0)
  resFailed,     \* indices for which the stream resolver threw
  log,           \* what the command printed: <<kind, index>>
  \* ---- handleYouTubeStream and playAndAwait
  storeKind,     \* state of the playlists file: "ok", "unreadable", "notArray"
  store,         \* the parsed playlists file
  x,             \* selectedVideo.id
  hpc,           \* position of handleYouTubeStream
  paPc,          \* position of the playAndAwait call in progress
  played,        \* the local played: outcome of the primary playAndAwait
  ret,           \* the value handleYouTubeStream returns (read when hpc = "returned")
  cont,          \* one-based position of containing in the store, 0: undefined
  ci,            \* loop index of the continuation (zero-based)
  curl,          \* the local url of the continuation iteration
  primaryOutcome, \* what playAndAwait resolved to for the selected track
  exitCode,      \* exit code of the play command's process, NoExit while it runs
  \* ---- one call of a routine that spawns the player
  routine,       \* "playAudioStream", "playAndAwait" or "playLoop" (one iteration)
  platform,      \* os.platform()
  probe,         \* environment: what `<player> --version` does, per candidate
  probed,        \* the candidates detectAudioPlayer probed, in order
  audioPlayer,   \* result of detectAudioPlayer, "pending" before
  rpc,           \* position of the routine
  spawnArgs,     \* the argument vector given to spawn
  finished,      \* the flag of playAndAwait's promise executor
  settled,       \* value the awaited promise was resolved with, "pending" before
  settleCount,   \* number of times a handler went on to resolve the promise
  nEvents,       \* number of events the child has emitted
  firstEvent,    \* the first event of the child: "error", "zero", "nonzero"
  reports,       \* number of failure reports printed for the child
  crashed,       \* an exception left an event handler uncaught
  routineRet,    \* what the routine returned to its caller, "none" before
  \* ---- the playlist store (playlists.ts)
  file,          \* parsed content of playlists.json; <<>> when there is no file
  now,           \* the last value Date.now() returned
  nOps,          \* number of store operations performed
  lastOp,        \* the last store operation: arguments, result, file before it
  \* ---- two CLI processes that share playlists.json
  cli,           \* per process: position, what it loaded, its mutation, its result
  \* ---- one call of getYouTubeAudioStream (the stream resolver)
  ytdlp,         \* environment: what ytdlp.getInfoAsync does in this call
  gpc,           \* position of the call
  infoCalls,     \* number of calls of ytdlp.getInfoAsync
  inner,         \* what getAudioStream gave: a url or an error message
  outcome,       \* what getYouTubeAudioStream gave: a url or an error message
  caught,        \* what the catch of handleYouTubeStream did with the error
  \* ---- one call of searchYouTube (google-apis.ts)
  searchResp,    \* environment: the items of the response of youtube.search.list
  spc,           \* position of the call
  searchOut,     \* the list searchYouTube returned
  \* ---- handlePlaylistCommand, action "add"
  results,       \* the ids of the search results
  found,         \* environment: the playlist named exists
  bpc,           \* position of the action
  bi,            \* number of results the for-of loop has taken
  added,
  skipped,
  processed,     \* the positions of the results the loop body ran for, in order
  appended,      \* the tracks addTrackToPlaylist saved, by position and id
  \* ---- the limit of the action "add"
  limitInput,    \* what the user typed at "How many results to add?"
  lpc,           \* "asked" before the limit is computed, "computed" after
  limit,         \* the limit passed to searchYouTube
  \* ---- formatTime and parseDuration (index.ts)
  totalSeconds,  \* the argument of formatTime
  tpc,           \* "start", "formatted", "parsed"
  formatted,     \* the string formatTime returned
  parsed,        \* what parseDuration returned for that string
  \* ---- the headless browser (PuppeteerYouTubeMusic, initializePuppeteerYTMusic)
  puppeteerYTMusic, \* the module variable: "null" or "instance"
  inst,          \* the fields of the one instance: browser, page, isInitialized
  ypc,           \* position of the call in progress, "idle" between calls
  launches,      \* number of browsers puppeteer.launch has started
  lastCall,      \* the last call: which, its result, the launches before it
  nCalls         \* number of calls made

playVars == <<tracks, startIndex, player, pc, i, url, currentChild, stopRequested,
              live, hung, killReq, sigintLive, attempted, resolveCalls,
              detectCalls, spawned, failedPlay, resFailed, log>>

streamVars == <<storeKind, store, x, hpc, paPc, played, ret, cont, ci, curl,
                primaryOutcome, exitCode>>

routineVars == <<routine, platform, probe, probed, audioPlayer, rpc, spawnArgs,
                 finished, settled, settleCount, nEvents, firstEvent, reports,
                 crashed, routineRet>>

storeVars == <<file, now, nOps, lastOp>>

resolverVars == <<ytdlp, gpc, infoCalls, inner, outcome, caught>>

searchVars == <<searchResp, spc, searchOut>>

bulkVars == <<results, found, bpc, bi, added, skipped, processed, appended>>

limitVars == <<limitInput, lpc, limit>>

timeVars == <<totalSeconds, tpc, formatted, parsed>>

browserVars == <<puppeteerYTMusic, inst, ypc, launches, lastCall, nCalls>>

\* The state of the helpers of the commands
extraVars == <<searchVars, bulkVars, limitVars, timeVars, browserVars>>

\* The state of the components that are modelled in runs of their own
otherVars == <<cli, resolverVars, extraVars>>

\* The state of everything but the helpers of the commands
coreVars == <<cmd, playVars, streamVars, routineVars, storeVars, cli, resolverVars>>

\* The state of the components that the play loop and handleYouTubeStream
\* are modelled without: the inside of the player routines, the store operations.
libVars == <<routineVars, storeVars, otherVars>>

vars == <<cmd, playVars, streamVars, libVars>>

\* The variables of a command that this run does not execute.
PlayIdle ==
  /\ tracks = <<>>
  /\ startIndex = 0
  /\ pc = "idle"
  /\ i = 0
  /\ url = None
  /\ currentChild = NoChild
  /\ stopRequested = FALSE
  /\ live = {}
  /\ hung = {}
  /\ killReq = {}
  /\ sigintLive = {}
  /\ failedPlay = {}

StreamIdle ==
  /\ storeKind = "ok"
  /\ store = <<>>
  /\ x = None
  /\ hpc = "idle"
  /\ paPc = "idle"
  /\ played = FALSE
  /\ ret = FALSE
  /\ cont = 0
  /\ ci = 0
  /\ curl = None
  /\ primaryOutcome = "none"
  /\ exitCode = NoExit

\* Nothing has been called, spawned or printed yet.
ObsInit ==
  /\ player \in PlayerNames \cup {NoPlayer}
  /\ attempted = <<>>
  /\ resolveCalls = <<>>
  /\ detectCalls = 0
  /\ spawned = <<>>
  /\ resFailed = {}
  /\ log = <<>>

\* ===================================================== playlist play loop
\* part_000:93-119: the queue is the non-empty track list of the playlist;
\* startIndex = max(0, parseInt(input) - 1), which may lie past the end.
PlayInit ==
  /\ tracks \in SeqsUpTo(Track, MaxQueue) \ {<<>>}
  /\ startIndex \in 0..Len(tracks)
  /\ pc = "loop"
  /\ i = startIndex
  /\ url = None
  /\ currentChild = NoChild
  /\ stopRequested = FALSE
  /\ live = {}
  /\ hung = {}
  /\ killReq = {}
  /\ sigintLive = {}
  /\ failedPlay = {}

\* tracks[i] of the code (zero-based)
TrackAt(k) == tracks[k + 1]

\* Faulty variant: the handler sets stopRequested and sends no termination request
Sigint_flagOnly ==
  /\ cmd = "playlist"
  /\ pc \in {"resolving", "detecting", "playing"}
  /\ stopRequested' = TRUE
  /\ sigintLive' = sigintLive \cup live
  /\ UNCHANGED <<cmd, libVars, streamVars, tracks, startIndex, player, pc, i, url, currentChild,
                 live, hung, killReq, attempted, resolveCalls, detectCalls, spawned,
                 failedPlay, log, resFailed>>

\* Faulty variant: the handler kills the current child and does not set stopRequested
Sigint_noFlag ==
  /\ cmd = "playlist"
  /\ pc \in {"resolving", "detecting", "playing"}
  /\ killReq' = IF currentChild # NoChild THEN killReq \cup {currentChild} ELSE killReq
  /\ sigintLive' = sigintLive \cup live
  /\ UNCHANGED <<cmd, libVars, streamVars, tracks, startIndex, player, pc, i, url, currentChild,
                 stopRequested, live, hung, attempted, resolveCalls, detectCalls,
                 spawned, failedPlay, log, resFailed>>

\* part_000:121-131: the SIGINT handler.  It can run whenever the function is
\* suspended at an await, any number of times.
Sigint ==
  /\ cmd = "playlist"
  /\ pc \in {"resolving", "detecting", "playing"}
  /\ stopRequested' = TRUE
  /\ killReq' = IF currentChild # NoChild THEN killReq \cup {currentChild} ELSE killReq
  /\ sigintLive' = sigintLive \cup live
  /\ UNCHANGED <<cmd, libVars, streamVars, tracks, startIndex, player, pc, i, url, currentChild,
                 live, hung, attempted, resolveCalls, detectCalls, spawned, failedPlay,
                 log, resFailed>>

\* Faulty variant: the loop condition is i <= length, with no track at i = length
LoopExit_offByOne ==
  /\ cmd = "playlist"
  /\ pc = "loop"
  /\ ~(i <= Len(tracks))
  /\ pc' = "done"
  /\ log' = Append(log, <<"finished", i>>)
  /\ UNCHANGED <<cmd, libVars, streamVars, tracks, startIndex, player, i, url, currentChild,
                 stopRequested, live, hung, killReq, sigintLive, attempted,
                 resolveCalls, detectCalls, spawned, failedPlay, resFailed>>

\* part_000:133 and 201-202: the loop condition fails
LoopExit ==
  /\ cmd = "playlist"
  /\ pc = "loop"
  /\ ~(i < Len(tracks))
  /\ pc' = "done"
  /\ log' = Append(log, <<"finished", i>>)
  /\ UNCHANGED <<cmd, libVars, streamVars, tracks, startIndex, player, i, url, currentChild,
                 stopRequested, live, hung, killReq, sigintLive, attempted,
                 resolveCalls, detectCalls, spawned, failedPlay, resFailed>>

\* part_000:134 and 201-202: if (stopRequested) break
StopBreak ==
  /\ cmd = "playlist"
  /\ pc = "loop"
  /\ i < Len(tracks)
  /\ stopRequested
  /\ pc' = "done"
  /\ log' = Append(log, <<"finished", i>>)
  /\ UNCHANGED <<cmd, libVars, streamVars, tracks, startIndex, player, i, url, currentChild,
                 stopRequested, live, hung, killReq, sigintLive, attempted,
                 resolveCalls, detectCalls, spawned, failedPlay, resFailed>>

\* Faulty variant: a track that has an id is handed to the resolver, with or
\* without a stored url
BeginResolve_idFirst ==
  /\ cmd = "playlist"
  /\ pc = "loop"
  /\ i < Len(tracks)
  /\ ~stopRequested
  /\ TrackAt(i).id # None
  /\ attempted' = Append(attempted, i)
  /\ url' = TrackAt(i).url
  /\ resolveCalls' = Append(resolveCalls, <<i, TrackAt(i).id>>)
  /\ pc' = "resolving"
  /\ UNCHANGED <<cmd, libVars, streamVars, tracks, startIndex, player, i, currentChild,
                 stopRequested, live, hung, killReq, sigintLive, detectCalls,
                 spawned, failedPlay, log, resFailed>>

\* part_000:135-143: the track has no url and has an id: call the resolver
BeginResolve ==
  /\ cmd = "playlist"
  /\ pc = "loop"
  /\ i < Len(tracks)
  /\ ~stopRequested
  /\ TrackAt(i).url = None /\ TrackAt(i).id # None
  /\ attempted' = Append(attempted, i)
  /\ url' = TrackAt(i).url
  /\ resolveCalls' = Append(resolveCalls, <<i, TrackAt(i).id>>)
  /\ pc' = "resolving"
  /\ UNCHANGED <<cmd, libVars, streamVars, tracks, startIndex, player, i, currentChild,
                 stopRequested, live, hung, killReq, sigintLive, detectCalls,
                 spawned, failedPlay, log, resFailed>>

\* Faulty variant: a track without url is handed to the resolver whether it has an id or not
SkipNoUrl_resolve ==
  /\ cmd = "playlist"
  /\ pc = "loop"
  /\ i < Len(tracks)
  /\ ~stopRequested
  /\ TrackAt(i).url = None /\ TrackAt(i).id = None
  /\ attempted' = Append(attempted, i)
  /\ url' = TrackAt(i).url
  /\ resolveCalls' = Append(resolveCalls, <<i, TrackAt(i).id>>)
  /\ pc' = "resolving"
  /\ UNCHANGED <<cmd, libVars, streamVars, tracks, startIndex, player, i, currentChild,
                 stopRequested, live, hung, killReq, sigintLive, detectCalls,
                 spawned, failedPlay, log, resFailed>>

\* part_000:135-141 and 154-157: neither url nor id: "No playable URL", continue
SkipNoUrl ==
  /\ cmd = "playlist"
  /\ pc = "loop"
  /\ i < Len(tracks)
  /\ ~stopRequested
  /\ TrackAt(i).url = None /\ TrackAt(i).id = None
  /\ attempted' = Append(attempted, i)
  /\ url' = TrackAt(i).url
  /\ log' = Append(log, <<"noUrl", i>>)
  /\ i' = i + 1
  /\ UNCHANGED <<cmd, libVars, streamVars, tracks, startIndex, player, pc, currentChild,
                 stopRequested, live, hung, killReq, sigintLive, resolveCalls,
                 detectCalls, spawned, failedPlay, resFailed>>

\* part_000:135-141 and 154-159: the stored url is used; detectAudioPlayer is called
UseStoredUrl ==
  /\ cmd = "playlist"
  /\ pc = "loop"
  /\ i < Len(tracks)
  /\ ~stopRequested
  /\ TrackAt(i).url # None
  /\ attempted' = Append(attempted, i)
  /\ url' = TrackAt(i).url
  /\ detectCalls' = detectCalls + 1
  /\ pc' = "detecting"
  /\ UNCHANGED <<cmd, libVars, streamVars, tracks, startIndex, player, i, currentChild,
                 stopRequested, live, hung, killReq, sigintLive, resolveCalls,
                 spawned, failedPlay, log, resFailed>>

\* part_000:143 and 154-159: the resolver returned a url; detectAudioPlayer is called
ResolveOk ==
  /\ cmd = "playlist"
  /\ pc = "resolving"
  /\ url' = ResolvedUrl(TrackAt(i).id)
  /\ detectCalls' = detectCalls + 1
  /\ pc' = "detecting"
  /\ UNCHANGED <<cmd, libVars, streamVars, tracks, startIndex, player, i, currentChild,
                 stopRequested, live, hung, killReq, sigintLive, attempted,
                 resolveCalls, spawned, failedPlay, log, resFailed>>

\* Faulty variant: the catch block leaves the loop instead of continuing
ResolveFail_break ==
  /\ cmd = "playlist"
  /\ pc = "resolving"
  /\ resFailed' = resFailed \cup {i}
  /\ log' = Append(Append(log, <<"resolveFailed", i>>), <<"finished", Len(tracks)>>)
  /\ pc' = "done"
  /\ UNCHANGED <<cmd, libVars, streamVars, tracks, startIndex, player, i, url, currentChild,
                 stopRequested, live, hung, killReq, sigintLive, attempted,
                 resolveCalls, detectCalls, spawned, failedPlay>>

\* Faulty variant: after a failed resolution the same track is tried again
ResolveFail_retry ==
  /\ cmd = "playlist"
  /\ pc = "resolving"
  /\ Len(attempted) <= Len(tracks)
  /\ resFailed' = resFailed \cup {i}
  /\ log' = Append(log, <<"resolveFailed", i>>)
  /\ pc' = "loop"
  /\ UNCHANGED <<cmd, libVars, streamVars, tracks, startIndex, player, url, currentChild,
                 stopRequested, live, hung, killReq, sigintLive, attempted,
                 resolveCalls, detectCalls, spawned, failedPlay, i>>

\* part_000:144-151: the resolver threw: report and continue
ResolveFail ==
  /\ cmd = "playlist"
  /\ pc = "resolving"
  /\ resFailed' = resFailed \cup {i}
  /\ log' = Append(log, <<"resolveFailed", i>>)
  /\ i' = i + 1
  /\ pc' = "loop"
  /\ UNCHANGED <<cmd, libVars, streamVars, tracks, startIndex, player, url, currentChild,
                 stopRequested, live, hung, killReq, sigintLive, attempted,
                 resolveCalls, detectCalls, spawned, failedPlay>>

\* Faulty variant: a missing player is reported and the loop goes on to the next track
DetectNone_continue ==
  /\ cmd = "playlist"
  /\ pc = "detecting"
  /\ player = NoPlayer
  /\ log' = Append(log, <<"noPlayer", i>>)
  /\ i' = i + 1
  /\ pc' = "loop"
  /\ UNCHANGED <<cmd, libVars, streamVars, tracks, startIndex, player, url, currentChild,
                 stopRequested, live, hung, killReq, sigintLive, attempted,
                 resolveCalls, detectCalls, spawned, failedPlay, resFailed>>

\* part_000:159-163: no player: report and return
DetectNone ==
  /\ cmd = "playlist"
  /\ pc = "detecting"
  /\ player = NoPlayer
  /\ log' = Append(log, <<"noPlayer", i>>)
  /\ pc' = "done"
  /\ UNCHANGED <<cmd, libVars, streamVars, tracks, startIndex, player, i, url, currentChild,
                 stopRequested, live, hung, killReq, sigintLive, attempted,
                 resolveCalls, detectCalls, spawned, failedPlay, resFailed>>

\* Faulty variant: the loop spawns the player and goes on without awaiting its events
SpawnRunning_noAwait ==
  /\ cmd = "playlist"
  /\ pc = "detecting"
  /\ player # NoPlayer
  /\ live' = live \cup {i}
  /\ spawned' = Append(spawned, [track |-> i, player |-> player, url |-> url])
  /\ currentChild' = NoChild
  /\ i' = i + 1
  /\ pc' = "loop"
  /\ UNCHANGED <<cmd, libVars, streamVars, tracks, startIndex, player, url, stopRequested, hung,
                 killReq, sigintLive, attempted, resolveCalls, detectCalls,
                 failedPlay, log, resFailed>>

\* part_000:165-191: spawn returned a child whose process runs; the function
\* awaits the first of its close, exit and error events.  h: the process never
\* exits unless it is signalled.
SpawnRunning ==
  /\ cmd = "playlist"
  /\ pc = "detecting"
  /\ player # NoPlayer
  /\ \E h \in BOOLEAN : hung' = IF h THEN hung \cup {i} ELSE hung
  /\ currentChild' = i
  /\ live' = live \cup {i}
  /\ spawned' = Append(spawned, [track |-> i, player |-> player, url |-> url])
  /\ pc' = "playing"
  /\ UNCHANGED <<cmd, libVars, streamVars, tracks, startIndex, player, i, url, stopRequested,
                 killReq, sigintLive, attempted, resolveCalls, detectCalls,
                 failedPlay, log, resFailed>>

\* part_000:165-191: spawn returned a child but no process could be started
\* (ENOENT and the like): the child will emit "error".
SpawnNoProcess ==
  /\ cmd = "playlist"
  /\ pc = "detecting"
  /\ player # NoPlayer
  /\ currentChild' = i
  /\ spawned' = Append(spawned, [track |-> i, player |-> player, url |-> url])
  /\ pc' = "playing"
  /\ UNCHANGED <<cmd, libVars, streamVars, tracks, startIndex, player, i, url, stopRequested,
                 live, hung, killReq, sigintLive, attempted, resolveCalls,
                 detectCalls, failedPlay, log, resFailed>>

\* part_000:178-198: spawn threw: catch reports, finally clears, next iteration
SpawnThrows ==
  /\ cmd = "playlist"
  /\ pc = "detecting"
  /\ player # NoPlayer
  /\ failedPlay' = failedPlay \cup {i}
  /\ log' = Append(log, <<"playbackError", i>>)
  /\ currentChild' = NoChild
  /\ i' = i + 1
  /\ pc' = "loop"
  /\ UNCHANGED <<cmd, libVars, streamVars, tracks, startIndex, player, url, stopRequested, live,
                 hung, killReq, sigintLive, attempted, resolveCalls,
                 detectCalls, spawned, resFailed>>

\* Faulty variant: the handle is not cleared when the process ends
ChildExit_noFinally ==
  /\ cmd = "playlist"
  /\ pc = "playing"
  /\ i \in live
  /\ i \notin hung \/ i \in killReq
  /\ \E code \in {0, 1} :
       failedPlay' = IF code # 0 /\ i \notin killReq
                     THEN failedPlay \cup {i} ELSE failedPlay
  /\ live' = live \ {i}
  /\ i' = i + 1
  /\ pc' = "loop"
  /\ UNCHANGED <<hung, cmd, libVars, streamVars, tracks, startIndex, player, url, stopRequested,
                 killReq, sigintLive, attempted, resolveCalls, detectCalls,
                 spawned, log, resFailed, currentChild>>

\* part_000:187-198: the running process ended: "exit" or "close" resolves the
\* promise, finally clears currentChild, next iteration.  A hung process ends
\* only after a kill request.
ChildExit ==
  /\ cmd = "playlist"
  /\ pc = "playing"
  /\ i \in live
  /\ i \notin hung \/ i \in killReq
  /\ \E code \in {0, 1} :
       failedPlay' = IF code # 0 /\ i \notin killReq
                     THEN failedPlay \cup {i} ELSE failedPlay
  /\ live' = live \ {i}
  /\ currentChild' = NoChild
  /\ i' = i + 1
  /\ pc' = "loop"
  /\ UNCHANGED <<hung, cmd, libVars, streamVars, tracks, startIndex, player, url, stopRequested,
                 killReq, sigintLive, attempted, resolveCalls, detectCalls,
                 spawned, log, resFailed>>

\* part_000:190 and 196-198: the child that never started emits "error", which
\* resolves the promise without a report
ChildError ==
  /\ cmd = "playlist"
  /\ pc = "playing"
  /\ i \notin live
  /\ failedPlay' = failedPlay \cup {i}
  /\ currentChild' = NoChild
  /\ i' = i + 1
  /\ pc' = "loop"
  /\ UNCHANGED <<cmd, libVars, streamVars, tracks, startIndex, player, url, stopRequested, live,
                 hung, killReq, sigintLive, attempted, resolveCalls,
                 detectCalls, spawned, log, resFailed>>

PlayNext ==
  \/ Sigint
  \/ LoopExit
  \/ StopBreak
  \/ BeginResolve
  \/ SkipNoUrl
  \/ UseStoredUrl
  \/ ResolveOk
  \/ ResolveFail
  \/ DetectNone
  \/ SpawnRunning
  \/ SpawnNoProcess
  \/ SpawnThrows
  \/ ChildExit
  \/ ChildError

\* ============================== handleYouTubeStream and playAndAwait
playOnly == <<tracks, startIndex, pc, i, url, currentChild, stopRequested, live, hung,
              killReq, sigintLive, failedPlay>>

\* index.ts:230-268: a result was found and selected.  The store holds whatever
\* the playlists file holds at that time: at most MaxPlaylists playlists with
\* at most MaxStoreTracks entries in all.
StreamInit ==
  /\ storeKind \in {"ok", "unreadable", "notArray"}
  /\ IF storeKind = "ok"
     THEN \E flat \in SeqsUpTo(Entry, MaxStoreTracks) :
            \E lens \in {l \in SeqsUpTo(0..MaxStoreTracks, MaxPlaylists) :
                           SumSeq(l) = Len(flat)} :
              store = Split(flat, lens)
     ELSE store = <<>>
  /\ x \in SelectedIds
  /\ hpc = "resolvePrimary"
  /\ paPc = "idle"
  /\ played = FALSE
  /\ ret = FALSE
  /\ cont = 0
  /\ ci = 0
  /\ curl = None
  /\ primaryOutcome = "none"
  /\ exitCode = NoExit

\* playlists.ts:30-38 and 63-65: listPlaylists gives the parsed file, and the
\* empty list when the file cannot be read or parsed
LoadedPlaylists == IF storeKind = "unreadable" THEN <<>> ELSE store

\* The scan of some() and findIndex() with t => t.id === xx over trs from
\* position k on: the first matching position, 0 when there is none, -1 when
\* the callback throws on a null entry before a match.
RECURSIVE ScanTracks(_, _, _)
ScanTracks(trs, xx, k) ==
  IF k > Len(trs) THEN 0
  ELSE IF trs[k].kind = "null" THEN -1
  ELSE IF trs[k].id = xx THEN k
  ELSE ScanTracks(trs, xx, k + 1)

\* Faulty variant: find looks for a playlist in which the track has a successor
RECURSIVE FindContaining_withSuccessor(_, _, _)
FindContaining_withSuccessor(pls, xx, p) ==
  IF p > Len(pls) THEN 0
  ELSE IF ScanTracks(pls[p].tracks, xx, 1) = -1 THEN -1
  ELSE IF /\ ScanTracks(pls[p].tracks, xx, 1) > 0
          /\ ScanTracks(pls[p].tracks, xx, 1) < Len(pls[p].tracks) THEN p
  ELSE FindContaining_withSuccessor(pls, xx, p + 1)

\* index.ts:278-280: playlists.find(pl => pl.tracks.some(...)) from position p
\* on: the first containing playlist, 0 for undefined, -1 when it throws.
RECURSIVE FindContaining(_, _, _)
FindContaining(pls, xx, p) ==
  IF p > Len(pls) THEN 0
  ELSE IF ScanTracks(pls[p].tracks, xx, 1) = -1 THEN -1
  ELSE IF ScanTracks(pls[p].tracks, xx, 1) > 0 THEN p
  ELSE FindContaining(pls, xx, p + 1)

\* containing.tracks
ContTracks == store[cont].tracks
\* containing.tracks[i] of the code (zero-based)
ContAt(k) == ContTracks[k + 1]

\* Faulty variant: without the inner try the exception reaches the catch of
\* index.ts:317-340, which returns false
ContCaught_outerCatch ==
  /\ ret' = FALSE
  /\ hpc' = "returned"

\* index.ts:312-316: whatever the continuation throws is caught and ignored;
\* the function returns played
ContCaught ==
  /\ ret' = played
  /\ hpc' = "returned"

\* index.ts:317-340: the resolver threw for the selected track
PrimaryResolveFail ==
  /\ cmd = "stream"
  /\ hpc = "resolvePrimary"
  /\ resolveCalls' = Append(resolveCalls, <<Primary, x>>)
  /\ resFailed' = resFailed \cup {Primary}
  /\ log' = Append(log, <<"streamError", Primary>>)
  /\ ret' = FALSE
  /\ hpc' = "returned"
  /\ UNCHANGED <<cmd, libVars, exitCode, playOnly, storeKind, store, x, paPc, played, cont, ci, curl,
                 player, attempted, detectCalls, spawned, primaryOutcome>>

\* index.ts:268-274 and 176-177: the stream is ready; playAndAwait is called
\* and awaits detectAudioPlayer
PrimaryResolveOk ==
  /\ cmd = "stream"
  /\ hpc = "resolvePrimary"
  /\ resolveCalls' = Append(resolveCalls, <<Primary, x>>)
  /\ curl' = ResolvedUrl(x)
  /\ hpc' = "playPrimary"
  /\ paPc' = "detecting"
  /\ detectCalls' = detectCalls + 1
  /\ UNCHANGED <<cmd, libVars, exitCode, playOnly, storeKind, store, x, played, ret, cont, ci, player,
                 attempted, spawned, log, resFailed, primaryOutcome>>

\* The track the playAndAwait call in progress plays
PaTrack == IF hpc = "playPrimary" THEN Primary ELSE ci

\* playAndAwait resolved with result r; its caller goes on in the same
\* microtask run.  index.ts:274-277: played is set and listPlaylists is
\* awaited; index.ts:307 and 289: the loop goes to its next iteration.
PaReturn(r) ==
  /\ paPc' = "idle"
  /\ IF hpc = "playPrimary"
     THEN /\ played' = r
          /\ primaryOutcome' = IF r THEN "true" ELSE "false"
          /\ hpc' = "lookup"
          /\ UNCHANGED ci
     ELSE /\ ci' = ci + 1
          /\ hpc' = "contLoop"
          /\ UNCHANGED <<played, primaryOutcome>>

\* index.ts:177-181: no player: "No audio player found", false
PaNoPlayer ==
  /\ cmd = "stream"
  /\ paPc = "detecting"
  /\ player = NoPlayer
  /\ log' = Append(log, <<"noPlayer", PaTrack>>)
  /\ PaReturn(FALSE)
  /\ UNCHANGED <<cmd, libVars, exitCode, playOnly, storeKind, store, x, ret, cont, curl, player,
                 attempted, resolveCalls, detectCalls, spawned, resFailed>>

\* index.ts:183-202: the player is spawned and its first event awaited
PaSpawn ==
  /\ cmd = "stream"
  /\ paPc = "detecting"
  /\ player # NoPlayer
  /\ spawned' = Append(spawned, [track |-> PaTrack, player |-> player, url |-> curl])
  /\ paPc' = "awaiting"
  /\ UNCHANGED <<cmd, libVars, exitCode, playOnly, storeKind, store, x, hpc, played, ret, cont, ci, curl,
                 player, attempted, resolveCalls, detectCalls, log, resFailed,
                 primaryOutcome>>

\* index.ts:183-200 and 224-227: spawn threw: "Playback error", false
PaSpawnThrows ==
  /\ cmd = "stream"
  /\ paPc = "detecting"
  /\ player # NoPlayer
  /\ log' = Append(log, <<"playbackError", PaTrack>>)
  /\ PaReturn(FALSE)
  /\ UNCHANGED <<cmd, libVars, exitCode, playOnly, storeKind, store, x, ret, cont, curl, player,
                 attempted, resolveCalls, detectCalls, spawned, resFailed>>

\* index.ts:204-210: the first event is "error": "Playback failed", false
PaError ==
  /\ cmd = "stream"
  /\ paPc = "awaiting"
  /\ log' = Append(log, <<"playbackFailed", PaTrack>>)
  /\ PaReturn(FALSE)
  /\ UNCHANGED <<cmd, libVars, exitCode, playOnly, storeKind, store, x, ret, cont, curl, player,
                 attempted, resolveCalls, detectCalls, spawned, resFailed>>

\* index.ts:211-222: the first event is "close" or "exit": code === 0
PaExit ==
  /\ cmd = "stream"
  /\ paPc = "awaiting"
  /\ \E code \in {0, 1} : PaReturn(code = 0)
  /\ UNCHANGED <<cmd, libVars, exitCode, playOnly, storeKind, store, x, ret, cont, curl, player,
                 attempted, resolveCalls, detectCalls, spawned, log, resFailed>>

\* index.ts:277-280: the parsed file is not an array (playlists.find is not a
\* function), or a track list scanned by find holds null before any match
LookupThrows ==
  /\ cmd = "stream"
  /\ hpc = "lookup"
  /\ IF storeKind = "notArray" THEN TRUE ELSE FindContaining(LoadedPlaylists, x, 1) = -1
  /\ ContCaught
  /\ UNCHANGED <<cmd, libVars, exitCode, playOnly, storeKind, store, x, paPc, played, cont, ci, curl,
                 player, attempted, resolveCalls, detectCalls, spawned, log, resFailed,
                 primaryOutcome>>

\* index.ts:277-285 and 316: no playlist contains the track, or the track is
\* the last one of the first playlist that contains it
LookupNone ==
  /\ cmd = "stream"
  /\ hpc = "lookup"
  /\ storeKind # "notArray"
  /\ LET c == FindContaining(LoadedPlaylists, x, 1) IN
       /\ c # -1
       /\ IF c = 0 THEN TRUE
          ELSE ~(ScanTracks(LoadedPlaylists[c].tracks, x, 1) - 1
                   < Len(LoadedPlaylists[c].tracks) - 1)
       /\ cont' = c
  /\ ret' = played
  /\ hpc' = "returned"
  /\ UNCHANGED <<cmd, libVars, exitCode, playOnly, storeKind, store, x, paPc, played, ci, curl, player,
                 attempted, resolveCalls, detectCalls, spawned, log, resFailed,
                 primaryOutcome>>

\* Faulty variant: the continuation loop starts at idx, the matched track itself
LookupContinue_fromMatch ==
  /\ cmd = "stream"
  /\ hpc = "lookup"
  /\ storeKind # "notArray"
  /\ LET c == FindContaining(LoadedPlaylists, x, 1) IN
       /\ c > 0
       /\ LET idx == ScanTracks(LoadedPlaylists[c].tracks, x, 1) - 1 IN
            /\ idx >= 0 /\ idx < Len(LoadedPlaylists[c].tracks) - 1
            /\ ci' = idx
            /\ log' = Append(log, <<"continuing", idx>>)
       /\ cont' = c
  /\ hpc' = "contLoop"
  /\ UNCHANGED <<cmd, libVars, exitCode, playOnly, storeKind, store, x, paPc, played, ret, curl, player,
                 attempted, resolveCalls, detectCalls, spawned, resFailed,
                 primaryOutcome>>

\* index.ts:277-289: the track is at idx in containing and is not its last
\* track: the loop starts at idx + 1
LookupContinue ==
  /\ cmd = "stream"
  /\ hpc = "lookup"
  /\ storeKind # "notArray"
  /\ LET c == FindContaining(LoadedPlaylists, x, 1) IN
       /\ c > 0
       /\ LET idx == ScanTracks(LoadedPlaylists[c].tracks, x, 1) - 1 IN
            /\ idx >= 0 /\ idx < Len(LoadedPlaylists[c].tracks) - 1
            /\ ci' = idx + 1
            /\ log' = Append(log, <<"continuing", idx>>)
       /\ cont' = c
  /\ hpc' = "contLoop"
  /\ UNCHANGED <<cmd, libVars, exitCode, playOnly, storeKind, store, x, paPc, played, ret, curl, player,
                 attempted, resolveCalls, detectCalls, spawned, resFailed,
                 primaryOutcome>>

\* index.ts:289 and 309-316: the loop condition fails: "Playlist finished."
ContExit ==
  /\ cmd = "stream"
  /\ hpc = "contLoop"
  /\ ~(ci < Len(ContTracks))
  /\ log' = Append(log, <<"finished", ci>>)
  /\ ret' = played
  /\ hpc' = "returned"
  /\ UNCHANGED <<cmd, libVars, exitCode, playOnly, storeKind, store, x, paPc, played, cont, ci, curl,
                 player, attempted, resolveCalls, detectCalls, spawned, resFailed,
                 primaryOutcome>>

\* index.ts:290-291: t is null: reading t.url throws
ContNullTrack ==
  /\ cmd = "stream"
  /\ hpc = "contLoop"
  /\ ci < Len(ContTracks)
  /\ ContAt(ci).kind = "null"
  /\ attempted' = Append(attempted, ci)
  /\ ContCaught
  /\ UNCHANGED <<cmd, libVars, exitCode, playOnly, storeKind, store, x, paPc, played, cont, ci, curl,
                 player, resolveCalls, detectCalls, spawned, log, resFailed,
                 primaryOutcome>>

\* index.ts:290-294: no url and an id: call the resolver
ContBeginResolve ==
  /\ cmd = "stream"
  /\ hpc = "contLoop"
  /\ ci < Len(ContTracks)
  /\ ContAt(ci).kind = "track"
  /\ ContAt(ci).url = None /\ ContAt(ci).id # None
  /\ attempted' = Append(attempted, ci)
  /\ curl' = ContAt(ci).url
  /\ resolveCalls' = Append(resolveCalls, <<ci, ContAt(ci).id>>)
  /\ hpc' = "contResolving"
  /\ UNCHANGED <<cmd, libVars, exitCode, playOnly, storeKind, store, x, paPc, played, ret, cont, ci,
                 player, detectCalls, spawned, log, resFailed, primaryOutcome>>

\* index.ts:290-292 and 302-305: neither url nor id: "No playable URL", continue
ContSkipNoUrl ==
  /\ cmd = "stream"
  /\ hpc = "contLoop"
  /\ ci < Len(ContTracks)
  /\ ContAt(ci).kind = "track"
  /\ ContAt(ci).url = None /\ ContAt(ci).id = None
  /\ attempted' = Append(attempted, ci)
  /\ curl' = ContAt(ci).url
  /\ log' = Append(log, <<"noUrl", ci>>)
  /\ ci' = ci + 1
  /\ UNCHANGED <<cmd, libVars, exitCode, playOnly, storeKind, store, x, hpc, paPc, played, ret, cont,
                 player, resolveCalls, detectCalls, spawned, resFailed, primaryOutcome>>

\* index.ts:290-292, 302-307 and 176-177: the stored url is played
ContUseStoredUrl ==
  /\ cmd = "stream"
  /\ hpc = "contLoop"
  /\ ci < Len(ContTracks)
  /\ ContAt(ci).kind = "track"
  /\ ContAt(ci).url # None
  /\ attempted' = Append(attempted, ci)
  /\ curl' = ContAt(ci).url
  /\ hpc' = "contPlay"
  /\ paPc' = "detecting"
  /\ detectCalls' = detectCalls + 1
  /\ UNCHANGED <<cmd, libVars, exitCode, playOnly, storeKind, store, x, played, ret, cont, ci, player,
                 resolveCalls, spawned, log, resFailed, primaryOutcome>>

\* index.ts:294, 302-307 and 176-177: the resolved url is played
ContResolveOk ==
  /\ cmd = "stream"
  /\ hpc = "contResolving"
  /\ curl' = ResolvedUrl(ContAt(ci).id)
  /\ hpc' = "contPlay"
  /\ paPc' = "detecting"
  /\ detectCalls' = detectCalls + 1
  /\ UNCHANGED <<cmd, libVars, exitCode, playOnly, storeKind, store, x, played, ret, cont, ci, player,
                 attempted, resolveCalls, spawned, log, resFailed, primaryOutcome>>

\* index.ts:295-300: the resolver threw: "Failed to resolve", continue
ContResolveFail ==
  /\ cmd = "stream"
  /\ hpc = "contResolving"
  /\ resFailed' = resFailed \cup {ci}
  /\ log' = Append(log, <<"resolveFailed", ci>>)
  /\ ci' = ci + 1
  /\ hpc' = "contLoop"
  /\ UNCHANGED <<cmd, libVars, exitCode, playOnly, storeKind, store, x, paPc, played, ret, cont, curl,
                 player, attempted, resolveCalls, detectCalls, spawned, primaryOutcome>>

\* index.ts:533-539: handleYouTubeStream returned, its result is dropped and
\* handlePlayCommand returns; process.exit(1) is called only in the catch
\* block, and nothing is thrown on this path, so the process ends with code 0
PlayCommandReturn ==
  /\ cmd = "stream"
  /\ hpc = "returned"
  /\ exitCode = NoExit
  /\ exitCode' = 0
  /\ UNCHANGED <<cmd, libVars, playOnly, storeKind, store, x, hpc, paPc, played, ret,
                 cont, ci, curl, primaryOutcome, player, attempted, resolveCalls,
                 detectCalls, spawned, log, resFailed>>

StreamNext ==
  \/ PrimaryResolveFail
  \/ PrimaryResolveOk
  \/ PaNoPlayer
  \/ PaSpawn
  \/ PaSpawnThrows
  \/ PaError
  \/ PaExit
  \/ LookupThrows
  \/ LookupNone
  \/ LookupContinue
  \/ ContExit
  \/ ContNullTrack
  \/ ContBeginResolve
  \/ ContSkipNoUrl
  \/ ContUseStoredUrl
  \/ ContResolveOk
  \/ ContResolveFail
  \/ PlayCommandReturn

\* ==================================== the routines that spawn the player
\* One call of playAudioStream (index.ts:52-170), of playAndAwait
\* (index.ts:172-228) or one iteration of the play loop from its player step
\* on (part_000:159-198), with detectAudioPlayer (part_003:377-404) probing
\* the candidates and the child emitting any events in any order.
Routines == {"playAudioStream", "playAndAwait", "playLoop"}
Platforms == {"darwin", "linux", "win32", "freebsd"}
Candidates == {"afplay", "cvlc", "mpv", "aplay"}
\* What the probe `<player> --version` does: close with code 0, close with
\* another code, an error event, or spawn throwing inside the executor.
ProbeOutcomes == {"ok", "nonzero", "error", "throws"}
\* The url handed to the routine
PlayUrl == "u"

\* part_003:378-385: the candidate list of the platform, linux's by default
PlatformPlayers(pf) ==
  CASE pf = "darwin" -> <<"afplay", "cvlc", "mpv">>
    [] pf = "linux"  -> <<"cvlc", "mpv", "aplay">>
    [] pf = "win32"  -> <<"cvlc", "mpv">>
    [] OTHER         -> <<"cvlc", "mpv", "aplay">>

\* index.ts:183-200: the argument vector playAndAwait spawns the player with
PlayAndAwaitArgs(p, u) ==
  IF p = "aplay" THEN <<"-f", "cd">>
  ELSE IF p = "cvlc" THEN <<u, "--intf", "dummy", "--play-and-exit">>
  ELSE IF p = "mpv" THEN <<u, "--no-video", "--really-quiet">>
  ELSE IF p = "afplay" THEN <<u>>
  ELSE <<u>>

\* Faulty variant: the play loop hands the url to every player, aplay included
PlayLoopArgs_urlAlways(p, u) ==
  IF p = "cvlc" THEN <<u, "--intf", "dummy", "--play-and-exit">>
  ELSE IF p = "mpv" THEN <<u, "--no-video", "--really-quiet">>
  ELSE <<u>>

\* part_000:165-176: the argument vector of the play loop
PlayLoopArgs(p, u) ==
  IF p = "cvlc" THEN <<u, "--intf", "dummy", "--play-and-exit">>
  ELSE IF p = "mpv" THEN <<u, "--no-video", "--really-quiet">>
  ELSE IF p = "afplay" THEN <<u>>
  ELSE IF p = "aplay" THEN <<"-f", "cd">>
  ELSE <<u>>

\* index.ts:109-127: the argument vector of playAudioStream
PlayAudioStreamArgs(p, u) ==
  IF p = "aplay" THEN <<"-f", "cd">>
  ELSE IF p = "cvlc" THEN <<u, "--intf", "dummy", "--play-and-exit">>
  ELSE IF p = "mpv" THEN <<u, "--no-video", "--really-quiet">>
  ELSE IF p = "afplay" THEN <<u>>
  ELSE <<u>>

ArgsOf(r, p, u) ==
  IF r = "playAndAwait" THEN PlayAndAwaitArgs(p, u)
  ELSE IF r = "playLoop" THEN PlayLoopArgs(p, u)
  ELSE PlayAudioStreamArgs(p, u)

\* No routine call is modelled in this run
RoutineIdle ==
  /\ routine = "idle"
  /\ platform = "linux"
  /\ probe = [c \in Candidates |-> "error"]
  /\ probed = <<>>
  /\ audioPlayer = "pending"
  /\ rpc = "idle"
  /\ spawnArgs = <<>>
  /\ finished = FALSE
  /\ settled = "pending"
  /\ settleCount = 0
  /\ nEvents = 0
  /\ firstEvent = "none"
  /\ reports = 0
  /\ crashed = FALSE
  /\ routineRet = "none"

\* The routine was called and awaits detectAudioPlayer (index.ts:58,
\* index.ts:177, part_000:159)
RoutineInit ==
  /\ routine \in Routines
  /\ platform \in Platforms
  /\ probe \in [Candidates -> ProbeOutcomes]
  /\ probed = <<>>
  /\ audioPlayer = "pending"
  /\ rpc = "detecting"
  /\ spawnArgs = <<>>
  /\ finished = FALSE
  /\ settled = "pending"
  /\ settleCount = 0
  /\ nEvents = 0
  /\ firstEvent = "none"
  /\ reports = 0
  /\ crashed = FALSE
  /\ routineRet = "none"

routineRest == <<cmd, playVars, streamVars, storeVars, otherVars>>

\* Faulty variant: the loop returns the candidate whatever its probe did
DetectProbe_anyOutcome ==
  /\ rpc = "detecting"
  /\ Len(probed) < Len(PlatformPlayers(platform))
  /\ LET c == PlatformPlayers(platform)[Len(probed) + 1] IN
       /\ probed' = Append(probed, c)
       /\ audioPlayer' = c
       /\ rpc' = "detected"
  /\ UNCHANGED <<routineRest, routine, platform, probe, spawnArgs, finished, settled,
                 settleCount, nEvents, firstEvent, reports, crashed, routineRet>>

\* part_003:387-400: the next candidate is probed; the first whose probe closes
\* with code 0 is returned, any other outcome rejects and the loop continues
DetectProbe ==
  /\ rpc = "detecting"
  /\ Len(probed) < Len(PlatformPlayers(platform))
  /\ LET c == PlatformPlayers(platform)[Len(probed) + 1] IN
       /\ probed' = Append(probed, c)
       /\ IF probe[c] = "ok"
          THEN audioPlayer' = c /\ rpc' = "detected"
          ELSE UNCHANGED <<audioPlayer, rpc>>
  /\ UNCHANGED <<routineRest, routine, platform, probe, spawnArgs, finished, settled,
                 settleCount, nEvents, firstEvent, reports, crashed, routineRet>>

\* part_003:387 and 403: every candidate was passed over: null
DetectNull ==
  /\ rpc = "detecting"
  /\ Len(probed) = Len(PlatformPlayers(platform))
  /\ audioPlayer' = NoPlayer
  /\ rpc' = "detected"
  /\ UNCHANGED <<routineRest, routine, platform, probe, probed, spawnArgs, finished,
                 settled, settleCount, nEvents, firstEvent, reports, crashed,
                 routineRet>>

\* index.ts:60-103, index.ts:178-181, part_000:160-163: no player: the two
\* functions return false, the play loop returns from the command
RoutineNoPlayer ==
  /\ rpc = "detected"
  /\ audioPlayer = NoPlayer
  /\ routineRet' = IF routine = "playLoop" THEN "return" ELSE "false"
  /\ rpc' = "returned"
  /\ UNCHANGED <<routineRest, routine, platform, probe, probed, audioPlayer, spawnArgs,
                 finished, settled, settleCount, nEvents, firstEvent, reports,
                 crashed>>

\* index.ts:109-165, index.ts:183-202, part_000:165-187: the player is spawned
\* and the handlers are registered; playAudioStream returns true at once, the
\* other two await the promise
RoutineSpawn ==
  /\ rpc = "detected"
  /\ audioPlayer # NoPlayer
  /\ spawnArgs' = ArgsOf(routine, audioPlayer, PlayUrl)
  /\ rpc' = "awaiting"
  /\ routineRet' = IF routine = "playAudioStream" THEN "true" ELSE routineRet
  /\ UNCHANGED <<routineRest, routine, platform, probe, probed, audioPlayer, finished,
                 settled, settleCount, nEvents, firstEvent, reports, crashed>>

\* index.ts:166-169, index.ts:224-227, part_000:192-198: spawn throws and the
\* catch block of the routine takes over
RoutineSpawnThrows ==
  /\ rpc = "detected"
  /\ audioPlayer # NoPlayer
  /\ spawnArgs' = ArgsOf(routine, audioPlayer, PlayUrl)
  /\ rpc' = "returned"
  /\ routineRet' = IF routine = "playLoop" THEN "next" ELSE "false"
  /\ UNCHANGED <<routineRest, routine, platform, probe, probed, audioPlayer, finished,
                 settled, settleCount, nEvents, firstEvent, reports, crashed>>

\* The child emits one more event of the given kind
Emit(kind) ==
  /\ rpc = "awaiting"
  /\ ~crashed
  /\ nEvents < MaxEvents
  /\ nEvents' = nEvents + 1
  /\ firstEvent' = IF firstEvent = "none" THEN kind ELSE firstEvent

\* resolve(v) of the awaited promise: the first call settles it, and the
\* routine, resumed by it, returns r
ResolveWith(v, r) ==
  /\ settleCount' = settleCount + 1
  /\ settled' = IF settled = "pending" THEN v ELSE settled
  /\ routineRet' = IF routineRet = "none" THEN r ELSE routineRet

\* index.ts:204-210: playAndAwait's handler of "error"
PaOnError ==
  /\ routine = "playAndAwait"
  /\ Emit("error")
  /\ IF ~finished
     THEN /\ finished' = TRUE
          /\ reports' = reports + 1
          /\ ResolveWith("false", "false")
     ELSE UNCHANGED <<finished, reports, settleCount, settled, routineRet>>
  /\ UNCHANGED <<routineRest, routine, platform, probe, probed, audioPlayer, rpc,
                 spawnArgs, crashed>>

\* Faulty variant: the handler resolves without looking at finished
PaOnCloseOrExit_noFlag ==
  /\ routine = "playAndAwait"
  /\ \E code \in {0, 1} :
       /\ Emit(IF code = 0 THEN "zero" ELSE "nonzero")
       /\ finished' = TRUE
       /\ IF code = 0 THEN ResolveWith("true", "true")
                      ELSE ResolveWith("false", "false")
  /\ UNCHANGED <<routineRest, routine, platform, probe, probed, audioPlayer, rpc,
                 spawnArgs, reports, crashed>>

\* index.ts:211-222: playAndAwait's handlers of "close" and of "exit" are the same
PaOnCloseOrExit ==
  /\ routine = "playAndAwait"
  /\ \E code \in {0, 1} :
       /\ Emit(IF code = 0 THEN "zero" ELSE "nonzero")
       /\ IF ~finished
          THEN /\ finished' = TRUE
               /\ IF code = 0 THEN ResolveWith("true", "true")
                              ELSE ResolveWith("false", "false")
          ELSE UNCHANGED <<finished, settleCount, settled, routineRet>>
  /\ UNCHANGED <<routineRest, routine, platform, probe, probed, audioPlayer, rpc,
                 spawnArgs, reports, crashed>>

\* part_000:187-191 and 196-199: in the play loop "close", "exit" and "error"
\* all call resolve(); the first one resumes the loop, which clears
\* currentChild and goes to the next track
LoopOnEvent ==
  /\ routine = "playLoop"
  /\ \E kind \in {"error", "zero", "nonzero"} : Emit(kind)
  /\ ResolveWith("void", "next")
  /\ UNCHANGED <<routineRest, routine, platform, probe, probed, audioPlayer, rpc,
                 spawnArgs, finished, reports, crashed>>

\* index.ts:129-137: playAudioStream's handler of "error" reports and throws
\* the error; nothing catches what an event handler throws
PasOnError ==
  /\ routine = "playAudioStream"
  /\ Emit("error")
  /\ reports' = reports + 1
  /\ crashed' = TRUE
  /\ UNCHANGED <<routineRest, routine, platform, probe, probed, audioPlayer, rpc,
                 spawnArgs, finished, settled, settleCount, routineRet>>

\* index.ts:139-143: playAudioStream's handler of "close" prints on code 0;
\* it registers none for "exit"
PasOnCloseOrExit ==
  /\ routine = "playAudioStream"
  /\ \E code \in {0, 1} : Emit(IF code = 0 THEN "zero" ELSE "nonzero")
  /\ UNCHANGED <<routineRest, routine, platform, probe, probed, audioPlayer, rpc,
                 spawnArgs, finished, settled, settleCount, reports, crashed,
                 routineRet>>

RoutineNext ==
  \/ DetectProbe
  \/ DetectNull
  \/ RoutineNoPlayer
  \/ RoutineSpawn
  \/ RoutineSpawnThrows
  \/ PaOnError
  \/ PaOnCloseOrExit
  \/ LoopOnEvent
  \/ PasOnError
  \/ PasOnCloseOrExit

\* ================================================ the playlist store
\* playlists.ts: every operation loads the whole collection from
\* playlists.json, changes it in memory and saves it whole.  A command of the
\* CLI awaits one operation before it starts the next, so an operation is one
\* action here.
\* The digits of Number.prototype.toString(36), most significant first
RECURSIVE ToString36(_)
ToString36(n) == IF n < 36 THEN <<n>> ELSE ToString36(n \div 36) \o <<n % 36>>
\* The values Date.now() may return
Times == 1..MaxClock
\* new Date(t).toISOString()
ToISO(t) == <<"iso", t>>
\* A property that is absent or undefined
Undef == "undefined"
\* Playlist names the user types: the first one reads like a generated id
Names == {ToString36(1), <<25, 30>>}
\* The identifiers the operations are called with
Keys == Names \cup {ToString36(t) : t \in Times}
\* The tracks addTrackToPlaylist is called with: id and url are optional,
\* addedAt is whatever the caller put there
TrackArgs ==
  {[id |-> d, title |-> "t", url |-> "s", addedAt |-> ToISO(0)] : d \in {"a", Undef}}

\* The zero-based track positions removeTrackFromPlaylist is called with
TrackIndexes == -1..(MaxOps - 2)

\* Reading a property of a parsed object
Get(o, k) == IF k \in DOMAIN o THEN o[k] ELSE Undef
\* JSON.stringify followed by JSON.parse of one track: a property whose value
\* is undefined is not written
TrackJson(t) == [k \in {kk \in DOMAIN t : t[kk] # Undef} |-> t[k]]
\* playlists.ts:40-47 and 30-38: what a later load gives after lists was saved
SavedAs(lists) ==
  [k \in DOMAIN lists |->
     [lists[k] EXCEPT !.tracks = [n \in DOMAIN @ |-> TrackJson(@[n])]]]

\* Array.prototype.findIndex over the outcomes of the callback, from k on:
\* the first position that holds TRUE, 0 (for the code's -1) when none does
RECURSIVE FirstTrue(_, _)
FirstTrue(flags, k) ==
  IF k > Len(flags) THEN 0
  ELSE IF flags[k] THEN k
  ELSE FirstTrue(flags, k + 1)

\* playlists.ts:71: the callback of find in getPlaylist
GetMatch(p, xx) == p.id = xx \/ p.name = xx
\* Faulty variant: addTrackToPlaylist looks at the id only
AddMatch_idOnly(p, xx) == p.id = xx
\* playlists.ts:79-81: the callback of findIndex in addTrackToPlaylist
AddMatch(p, xx) == p.id = xx \/ p.name = xx
\* playlists.ts:93-95: the callback of findIndex in removeTrackFromPlaylist
RemoveMatch(p, xx) == p.id = xx \/ p.name = xx
\* Faulty variant: filter keeps the playlists that match
DeleteKeeps_matching(p, xx) == p.id = xx \/ p.name = xx
\* playlists.ts:105-107: the callback of filter in deletePlaylist
DeleteKeeps(p, xx) == p.id # xx /\ p.name # xx

\* Array.prototype.splice(k, 1) with a zero-based k inside the array
Splice1(q, k) == SubSeq(q, 1, k) \o SubSeq(q, k + 2, Len(q))
\* Array.prototype.filter over the outcomes of the callback
RECURSIVE Filter(_, _)
Filter(q, keep) ==
  IF q = <<>> THEN <<>>
  ELSE (IF Head(keep) THEN <<Head(q)>> ELSE <<>>) \o Filter(Tail(q), Tail(keep))

\* No store operation has been performed
NoOp == [op |-> "none", x |-> <<>>, sel |-> 0, result |-> "none", before |-> <<>>,
         track |-> <<>>, index |-> 0]

\* No store operation is modelled in this run
StoreIdle ==
  /\ file = <<>>
  /\ now = 0
  /\ nOps = 0
  /\ lastOp = NoOp

\* A fresh installation: there is no playlists file, loadPlaylists gives []
StoreInit ==
  /\ file = <<>>
  /\ now = 0
  /\ nOps = 0
  /\ lastOp = NoOp

storeRest == <<cmd, playVars, streamVars, routineVars, otherVars>>

\* playlists.ts:49-61: createPlaylist; Date.now() gives the id, a second
\* reading of the clock gives createdAt
CreatePlaylist ==
  /\ nOps < MaxOps
  /\ \E name \in Names : \E t \in Times : \E t2 \in Times :
       /\ now <= t /\ t <= t2
       /\ file' = SavedAs(Append(file, [id |-> ToString36(t), name |-> name,
                                        tracks |-> <<>>, createdAt |-> ToISO(t2)]))
       /\ now' = t2
       /\ lastOp' = [op |-> "create", x |-> name, sel |-> Len(file) + 1,
                     result |-> "ok", before |-> file, track |-> <<>>, index |-> 0]
  /\ nOps' = nOps + 1
  /\ UNCHANGED storeRest

\* playlists.ts:67-72: getPlaylist
GetPlaylist ==
  /\ nOps < MaxOps
  /\ \E xx \in Keys :
       LET idx == FirstTrue([k \in DOMAIN file |-> GetMatch(file[k], xx)], 1) IN
         lastOp' = [op |-> "get", x |-> xx, sel |-> idx,
                    result |-> IF idx = 0 THEN "undefined" ELSE "found",
                    before |-> file, track |-> <<>>, index |-> 0]
  /\ nOps' = nOps + 1
  /\ UNCHANGED <<storeRest, file, now>>

\* Faulty variant: every track of the playlist gets the time of the append
AddTrackToPlaylist_restampAll ==
  /\ nOps < MaxOps
  /\ \E xx \in Keys : \E t \in TrackArgs :
       LET idx == FirstTrue([k \in DOMAIN file |-> AddMatch(file[k], xx)], 1) IN
         IF idx = 0
         THEN /\ lastOp' = [op |-> "add", x |-> xx, sel |-> 0, result |-> "notFound",
                            before |-> file, track |-> t, index |-> 0]
              /\ UNCHANGED <<file, now>>
         ELSE \E tm \in Times :
                /\ now <= tm
                /\ file' = SavedAs([file EXCEPT ![idx].tracks =
                         [n \in DOMAIN Append(@, t) |->
                            [Append(@, t)[n] EXCEPT !.addedAt = ToISO(tm)]]])
                /\ now' = tm
                /\ lastOp' = [op |-> "add", x |-> xx, sel |-> idx, result |-> "ok",
                              before |-> file, track |-> t, index |-> 0]
  /\ nOps' = nOps + 1
  /\ UNCHANGED storeRest

\* Faulty variant: the new track is put in front and keeps the caller's addedAt
AddTrackToPlaylist_front ==
  /\ nOps < MaxOps
  /\ \E xx \in Keys : \E t \in TrackArgs :
       LET idx == FirstTrue([k \in DOMAIN file |-> AddMatch(file[k], xx)], 1) IN
         IF idx = 0
         THEN /\ lastOp' = [op |-> "add", x |-> xx, sel |-> 0, result |-> "notFound",
                            before |-> file, track |-> t, index |-> 0]
              /\ UNCHANGED <<file, now>>
         ELSE \E tm \in Times :
                /\ now <= tm
                /\ file' = SavedAs([file EXCEPT ![idx].tracks = <<t>> \o @])
                /\ now' = tm
                /\ lastOp' = [op |-> "add", x |-> xx, sel |-> idx, result |-> "ok",
                              before |-> file, track |-> t, index |-> 0]
  /\ nOps' = nOps + 1
  /\ UNCHANGED storeRest

\* playlists.ts:74-86: addTrackToPlaylist; it throws "Playlist not found"
\* before anything is saved
AddTrackToPlaylist ==
  /\ nOps < MaxOps
  /\ \E xx \in Keys : \E t \in TrackArgs :
       LET idx == FirstTrue([k \in DOMAIN file |-> AddMatch(file[k], xx)], 1) IN
         IF idx = 0
         THEN /\ lastOp' = [op |-> "add", x |-> xx, sel |-> 0, result |-> "notFound",
                            before |-> file, track |-> t, index |-> 0]
              /\ UNCHANGED <<file, now>>
         ELSE \E tm \in Times :
                /\ now <= tm
                /\ file' = SavedAs([file EXCEPT ![idx].tracks = 
                         Append(@, [t EXCEPT !.addedAt = ToISO(tm)])])
                /\ now' = tm
                /\ lastOp' = [op |-> "add", x |-> xx, sel |-> idx, result |-> "ok",
                              before |-> file, track |-> t, index |-> 0]
  /\ nOps' = nOps + 1
  /\ UNCHANGED storeRest

\* Faulty variant: the range check tests the upper end only; splice takes a
\* negative index as counted from the end
RemoveTrackFromPlaylist_upperOnly ==
  /\ nOps < MaxOps
  /\ \E xx \in Keys : \E ti \in TrackIndexes :
       LET idx == FirstTrue([k \in DOMAIN file |-> RemoveMatch(file[k], xx)], 1) IN
         IF idx = 0
         THEN /\ lastOp' = [op |-> "remove", x |-> xx, sel |-> 0, result |-> "notFound",
                            before |-> file, track |-> <<>>, index |-> ti]
              /\ UNCHANGED file
         ELSE IF ti >= Len(file[idx].tracks)
         THEN /\ lastOp' = [op |-> "remove", x |-> xx, sel |-> idx, result |-> "range",
                            before |-> file, track |-> <<>>, index |-> ti]
              /\ UNCHANGED file
         ELSE /\ file' = SavedAs([file EXCEPT ![idx].tracks =
                                    IF ti >= 0 THEN Splice1(@, ti)
                                    ELSE IF Len(@) + ti >= 0 THEN Splice1(@, Len(@) + ti)
                                    ELSE Splice1(@, 0)])
              /\ lastOp' = [op |-> "remove", x |-> xx, sel |-> idx, result |-> "ok",
                            before |-> file, track |-> <<>>, index |-> ti]
  /\ nOps' = nOps + 1
  /\ UNCHANGED <<storeRest, now>>

\* Faulty variant: splice is given the one-based position
RemoveTrackFromPlaylist_oneBased ==
  /\ nOps < MaxOps
  /\ \E xx \in Keys : \E ti \in TrackIndexes :
       LET idx == FirstTrue([k \in DOMAIN file |-> RemoveMatch(file[k], xx)], 1) IN
         IF idx = 0
         THEN /\ lastOp' = [op |-> "remove", x |-> xx, sel |-> 0, result |-> "notFound",
                            before |-> file, track |-> <<>>, index |-> ti]
              /\ UNCHANGED file
         ELSE IF ti < 0 \/ ti >= Len(file[idx].tracks)
         THEN /\ lastOp' = [op |-> "remove", x |-> xx, sel |-> idx, result |-> "range",
                            before |-> file, track |-> <<>>, index |-> ti]
              /\ UNCHANGED file
         ELSE /\ file' = SavedAs([file EXCEPT ![idx].tracks = Splice1(@, ti + 1)])
              /\ lastOp' = [op |-> "remove", x |-> xx, sel |-> idx, result |-> "ok",
                            before |-> file, track |-> <<>>, index |-> ti]
  /\ nOps' = nOps + 1
  /\ UNCHANGED <<storeRest, now>>

\* playlists.ts:88-101: removeTrackFromPlaylist; both errors are thrown
\* before anything is saved
RemoveTrackFromPlaylist ==
  /\ nOps < MaxOps
  /\ \E xx \in Keys : \E ti \in TrackIndexes :
       LET idx == FirstTrue([k \in DOMAIN file |-> RemoveMatch(file[k], xx)], 1) IN
         IF idx = 0
         THEN /\ lastOp' = [op |-> "remove", x |-> xx, sel |-> 0, result |-> "notFound",
                            before |-> file, track |-> <<>>, index |-> ti]
              /\ UNCHANGED file
         ELSE IF ti < 0 \/ ti >= Len(file[idx].tracks)
         THEN /\ lastOp' = [op |-> "remove", x |-> xx, sel |-> idx, result |-> "range",
                            before |-> file, track |-> <<>>, index |-> ti]
              /\ UNCHANGED file
         ELSE /\ file' = SavedAs([file EXCEPT ![idx].tracks = Splice1(@, ti)])
              /\ lastOp' = [op |-> "remove", x |-> xx, sel |-> idx, result |-> "ok",
                            before |-> file, track |-> <<>>, index |-> ti]
  /\ nOps' = nOps + 1
  /\ UNCHANGED <<storeRest, now>>

\* playlists.ts:103-109: deletePlaylist keeps the playlists that match neither
\* by id nor by name
DeletePlaylist ==
  /\ nOps < MaxOps
  /\ \E xx \in Keys :
       /\ file' = SavedAs(Filter(file, [k \in DOMAIN file |-> DeleteKeeps(file[k], xx)]))
       /\ lastOp' = [op |-> "delete", x |-> xx, sel |-> 0, result |-> "ok",
                     before |-> file, track |-> <<>>, index |-> 0]
  /\ nOps' = nOps + 1
  /\ UNCHANGED <<storeRest, now>>

\* playlists.ts:32-37 and 49-61: createPlaylist when fs.readFile rejects or
\* JSON.parse throws (the file exists but cannot be read or parsed at this
\* time): loadPlaylists gives [], and the collection that is saved holds the
\* new playlist only
CreatePlaylistReadFails ==
  /\ nOps < MaxOps
  /\ file # <<>>
  /\ \E name \in Names : \E t \in Times : \E t2 \in Times :
       /\ now <= t /\ t <= t2
       /\ file' = SavedAs(Append(<<>>, [id |-> ToString36(t), name |-> name,
                                        tracks |-> <<>>, createdAt |-> ToISO(t2)]))
       /\ now' = t2
       /\ lastOp' = [op |-> "create", x |-> name, sel |-> 1,
                     result |-> "ok", before |-> file, track |-> <<>>, index |-> 0]
  /\ nOps' = nOps + 1
  /\ UNCHANGED storeRest

StoreNext ==
  \/ CreatePlaylist
  \/ GetPlaylist
  \/ AddTrackToPlaylist
  \/ RemoveTrackFromPlaylist
  \/ DeletePlaylist


\* ============================== two CLI processes on one playlists file
\* Each process runs one store function. The function awaits loadPlaylists
\* (fs.readFile of the whole file) in its first statement and savePlaylists
\* (fs.writeFile of the whole collection) in its last; nothing locks the file,
\* and the other process may run between the two.
CliProcs == {1, 2}
OtherCli(p) == 3 - p

\* The process has not started
CliNone == [pc |-> "none", mem |-> <<>>, kind |-> "none", x |-> <<>>, track |-> <<>>,
            result |-> "none", wrote |-> <<>>, concurrent |-> FALSE]

\* No CLI process is modelled in this run
CliIdle == cli = [p \in CliProcs |-> CliNone]

\* Faulty variant: the load ignores the file, as if it did not exist
CliLoad_empty(p) ==
  /\ cli[p].pc = "start"
  /\ \/ \E xx \in Keys : \E t \in TrackArgs :
          cli' = [cli EXCEPT ![p] = [@ EXCEPT !.pc = "loaded", !.mem = <<>>,
                    !.kind = "add", !.x = xx, !.track = t,
                    !.concurrent = (cli[OtherCli(p)].pc = "loaded")]]
     \/ \E name \in Names :
          cli' = [cli EXCEPT ![p] = [@ EXCEPT !.pc = "loaded", !.mem = <<>>,
                    !.kind = "create", !.x = name,
                    !.concurrent = (cli[OtherCli(p)].pc = "loaded")]]
  /\ UNCHANGED <<cmd, playVars, streamVars, routineVars, storeVars, resolverVars, extraVars>>

\* playlists.ts:75 and 50: the function was called with its arguments and
\* loadPlaylists read and parsed the file (30-38)
CliLoad(p) ==
  /\ cli[p].pc = "start"
  /\ \/ \E xx \in Keys : \E t \in TrackArgs :
          cli' = [cli EXCEPT ![p] = [@ EXCEPT !.pc = "loaded", !.mem = file,
                    !.kind = "add", !.x = xx, !.track = t,
                    !.concurrent = (cli[OtherCli(p)].pc = "loaded")]]
     \/ \E name \in Names :
          cli' = [cli EXCEPT ![p] = [@ EXCEPT !.pc = "loaded", !.mem = file,
                    !.kind = "create", !.x = name,
                    !.concurrent = (cli[OtherCli(p)].pc = "loaded")]]
  /\ UNCHANGED <<cmd, playVars, streamVars, routineVars, storeVars, resolverVars, extraVars>>

\* playlists.ts:76-85 and 51-60: the function changes what it loaded and
\* savePlaylists writes the whole collection (40-47); addTrackToPlaylist
\* throws before the write when no playlist matches
CliSave(p) ==
  /\ cli[p].pc = "loaded"
  /\ IF cli[p].kind = "add"
     THEN LET mem == cli[p].mem
              idx == FirstTrue([k \in DOMAIN mem |-> AddMatch(mem[k], cli[p].x)], 1) IN
            IF idx = 0
            THEN /\ cli' = [cli EXCEPT ![p] = [@ EXCEPT !.pc = "done",
                                                 !.result = "notFound"]]
                 /\ UNCHANGED <<file, now>>
            ELSE \E tm \in Times :
                   /\ now <= tm
                   /\ file' = SavedAs([mem EXCEPT ![idx].tracks =
                            Append(@, [cli[p].track EXCEPT !.addedAt = ToISO(tm)])])
                   /\ now' = tm
                   /\ cli' = [cli EXCEPT ![p] = [@ EXCEPT !.pc = "done", !.result = "ok",
                         !.wrote = TrackJson([cli[p].track EXCEPT !.addedAt = ToISO(tm)])]]
     ELSE \E t \in Times : \E t2 \in Times :
            LET created == [id |-> ToString36(t), name |-> cli[p].x,
                            tracks |-> <<>>, createdAt |-> ToISO(t2)] IN
              /\ now <= t /\ t <= t2
              /\ file' = SavedAs(Append(cli[p].mem, created))
              /\ now' = t2
              /\ cli' = [cli EXCEPT ![p] = [@ EXCEPT !.pc = "done", !.result = "ok",
                                              !.wrote = created]]
  /\ UNCHANGED <<cmd, playVars, streamVars, routineVars, nOps, lastOp, resolverVars, extraVars>>

CliNext == \E p \in CliProcs : CliLoad(p) \/ CliSave(p)

\* The file holds one playlist without tracks, created at time 1, and both
\* processes are about to start
CliInit ==
  /\ \E name \in Names :
       file = SavedAs(<<[id |-> ToString36(1), name |-> name, tracks |-> <<>>,
                         createdAt |-> ToISO(1)]>>)
  /\ now = 1
  /\ nOps = 0
  /\ lastOp = NoOp
  /\ cli = [p \in CliProcs |-> [CliNone EXCEPT !.pc = "start"]]

\* ================================ the stream resolver (part_003:273-374)
\* An error message is a sequence of fragments; String.prototype.includes is
\* the search for a contiguous run of fragments.
Fragments == {"Could not extract ", "functions", "Sign in to confirm",
              "Video unavailable", "Private video", "HTTP Error 429"}
MaxFragments == 2
Messages == SeqsUpTo(Fragments, MaxFragments)

Includes(msg, pat) ==
  \E k \in 0..(Len(msg) - Len(pat)) : SubSeq(msg, k + 1, k + Len(pat)) = pat

\* The formats of the info object: codecs, quality and bitrate where given
\* (undefined counts as 0 in the comparison), and the url
MaxFormats == 2
Formats == [acodec : {"none", "opus"}, vcodec : {"none", "avc1"},
            quality : 0..1, abr : 0..1]
UrlOf(k) == <<"url", k>>

\* What ytdlp.getInfoAsync does: it rejects with a message, or it gives an
\* info object
YtdlpOutcomes ==
  [kind : {"throws"}, msg : Messages, type : {Undef}, formats : {<<>>}]
    \cup [kind : {"info"}, msg : {<<>>}, type : {Undef, "video", "playlist"},
          formats : SeqsUpTo(Formats, MaxFormats)]

NoResult == [kind |-> "none", value |-> <<>>]
\* The catch of handleYouTubeStream has not run
NoCatch == [reported |-> FALSE, guidance |-> FALSE, ret |-> "none"]

\* No resolver call is modelled in this run
ResolverIdle ==
  /\ ytdlp = [kind |-> "none", msg |-> <<>>, type |-> Undef, formats |-> <<>>]
  /\ gpc = "none"
  /\ infoCalls = 0
  /\ inner = NoResult
  /\ outcome = NoResult
  /\ caught = NoCatch

ResolverInit ==
  /\ ytdlp \in YtdlpOutcomes
  /\ gpc = "start"
  /\ infoCalls = 0
  /\ inner = NoResult
  /\ outcome = NoResult
  /\ caught = NoCatch

resolverRest == <<cmd, playVars, streamVars, routineVars, storeVars, cli, extraVars>>

\* part_003:283-285: the positions of the audio-only formats
AudioOnly(formats) ==
  {k \in DOMAIN formats : formats[k].acodec # "none" /\ formats[k].vcodec = "none"}

\* part_003:290-301: the comparison function of the sort; a negative value
\* puts a first
Compare(a, b) ==
  IF b.quality - a.quality # 0 THEN b.quality - a.quality ELSE b.abr - a.abr

\* part_003:290-307: the position of the format a stable sort puts first
SortedFirst(formats) ==
  CHOOSE k \in AudioOnly(formats) :
    \A j \in AudioOnly(formats) :
      \/ Compare(formats[k], formats[j]) < 0
      \/ Compare(formats[k], formats[j]) = 0 /\ k <= j

\* part_003:308-310: the catch of getAudioStream
Failed(msg) == [kind |-> "error", value |-> <<"Failed to get audio stream: ">> \o msg]

\* part_003:273-311: getAudioStream, one call of ytdlp.getInfoAsync
GetAudioStream ==
  /\ gpc = "start"
  /\ infoCalls' = infoCalls + 1
  /\ inner' =
       IF ytdlp.kind = "throws" THEN Failed(ytdlp.msg)
       ELSE IF ytdlp.type # "video"
       THEN Failed(<<"Invalid video information received">>)
       ELSE IF AudioOnly(ytdlp.formats) = {}
       THEN Failed(<<"No audio-only formats found">>)
       ELSE [kind |-> "url", value |-> UrlOf(SortedFirst(ytdlp.formats))]
  /\ gpc' = "got"
  /\ UNCHANGED <<resolverRest, ytdlp, outcome, caught>>

\* part_003:351: the try of getYouTubeAudioStream returns what it awaited
ResolverReturn ==
  /\ gpc = "got"
  /\ inner.kind = "url"
  /\ outcome' = inner
  /\ gpc' = "done"
  /\ UNCHANGED <<resolverRest, ytdlp, infoCalls, inner, caught>>

\* Faulty variant: the sign-in test comes before the test for "functions"
Classify_signInFirst(msg) ==
  IF Includes(msg, <<"Sign in to confirm">>)
  THEN <<"YouTube requires sign-in verification. Try using a VPN or different IP address.">>
  ELSE IF Includes(msg, <<"Could not extract ", "functions">>) \/ Includes(msg, <<"functions">>)
  THEN <<"YouTube stream extraction failed. This may be due to YouTube updates. Try updating ytdl-core or use a different video.">>
  ELSE IF Includes(msg, <<"Video unavailable">>)
  THEN <<"This video is not available for streaming.">>
  ELSE IF Includes(msg, <<"Private video">>)
  THEN <<"This is a private video and cannot be streamed.">>
  ELSE <<"Stream extraction error: ">> \o msg

\* part_003:353-372: the message of the error the catch throws
Classify(msg) ==
  IF Includes(msg, <<"Could not extract ", "functions">>) \/ Includes(msg, <<"functions">>)
  THEN <<"YouTube stream extraction failed. This may be due to YouTube updates. Try updating ytdl-core or use a different video.">>
  ELSE IF Includes(msg, <<"Sign in to confirm">>)
  THEN <<"YouTube requires sign-in verification. Try using a VPN or different IP address.">>
  ELSE IF Includes(msg, <<"Video unavailable">>)
  THEN <<"This video is not available for streaming.">>
  ELSE IF Includes(msg, <<"Private video">>)
  THEN <<"This is a private video and cannot be streamed.">>
  ELSE <<"Stream extraction error: ">> \o msg

\* part_003:352-373: the catch of getYouTubeAudioStream throws one error
ResolverThrow ==
  /\ gpc = "got"
  /\ inner.kind = "error"
  /\ outcome' = [kind |-> "error", value |-> Classify(inner.value)]
  /\ gpc' = "done"
  /\ UNCHANGED <<resolverRest, ytdlp, infoCalls, inner, caught>>

ResolverNext ==
  \/ GetAudioStream
  \/ ResolverReturn
  \/ ResolverThrow

\* index.ts:317-341: the catch around the resolver call for the selected
\* track: the spinner fails with the message, the guidance box is printed if
\* the message includes "Sign in to confirm", and false is returned
StreamErrorCatch ==
  /\ gpc = "done"
  /\ outcome.kind = "error"
  /\ caught' = [reported |-> TRUE,
                guidance |-> Includes(outcome.value, <<"Sign in to confirm">>),
                ret |-> "false"]
  /\ gpc' = "handled"
  /\ UNCHANGED <<resolverRest, ytdlp, infoCalls, inner, outcome>>

\* The resolver call for the selected track and the catch around it
StreamErrorNext == ResolverNext \/ StreamErrorCatch

\* ======================================= searchYouTube (google-apis.ts)
MaxItems == 3
VideoIds == {"a", "b", "c"}
\* What the provider holds as contentDetails.duration of a video
DurationOf(id) == <<"PT", id>>
\* The items of a search response: the videoId of each, None where the item
\* has no id.videoId; hasItems is false when response.data.items is undefined
SearchResponses ==
  [hasItems : {TRUE}, items : SeqsUpTo(VideoIds \cup {None}, MaxItems)]
    \cup {[hasItems |-> FALSE, items |-> <<>>]}

\* No search is modelled in this run
SearchIdle ==
  /\ searchResp = [hasItems |-> FALSE, items |-> <<>>]
  /\ spc = "none"
  /\ searchOut = <<>>

SearchInit ==
  /\ searchResp \in SearchResponses
  /\ spc = "start"
  /\ searchOut = <<>>

searchRest == <<coreVars, bulkVars, limitVars, timeVars, browserVars>>

\* google-apis.ts:34-36: the response has no items
SearchNoItems ==
  /\ spc = "start"
  /\ ~searchResp.hasItems
  /\ searchOut' = <<>>
  /\ spc' = "done"
  /\ UNCHANGED <<searchRest, searchResp>>

\* Array.prototype.filter with the type guard of google-apis.ts:40
RECURSIVE StringsOf(_)
StringsOf(q) ==
  IF q = <<>> THEN <<>>
  ELSE (IF Head(q) # None THEN <<Head(q)>> ELSE <<>>) \o StringsOf(Tail(q))

\* google-apis.ts:41-44: youtube.videos.list gives the details of the videos
\* asked for, in the order of the ids
DetailsOf(videoIds) == [k \in DOMAIN videoIds |-> [duration |-> DurationOf(videoIds[k])]]

\* google-apis.ts:38-55: the ids of the items are collected, their details are
\* fetched, and item number index gets the details at position index
SearchMap ==
  /\ spc = "start"
  /\ searchResp.hasItems
  /\ LET videoIds == StringsOf(searchResp.items)
         details == DetailsOf(videoIds) IN
       searchOut' = [k \in DOMAIN searchResp.items |->
                       [id |-> searchResp.items[k],
                        duration |-> IF k \in DOMAIN details
                                     THEN details[k].duration
                                     ELSE <<"Unknown">>]]
  /\ spc' = "done"
  /\ UNCHANGED <<searchRest, searchResp>>

SearchNext == SearchNoItems \/ SearchMap

\* ======================== handlePlaylistCommand, action "add" (part_000)
MaxResults == 3

\* The action "add" is not modelled in this run
BulkIdle ==
  /\ results = <<>>
  /\ found = FALSE
  /\ bpc = "none"
  /\ bi = 0
  /\ added = 0
  /\ skipped = 0
  /\ processed = <<>>
  /\ appended = <<>>

\* part_000:58: searchYouTube has returned its results
BulkInit ==
  /\ results \in SeqsUpTo(VideoIds, MaxResults)
  /\ found \in BOOLEAN
  /\ bpc = "searched"
  /\ bi = 0
  /\ added = 0
  /\ skipped = 0
  /\ processed = <<>>
  /\ appended = <<>>

bulkRest == <<coreVars, searchVars, limitVars, timeVars, browserVars>>

\* part_000:59-62: no results: "No results found."
BulkNoResults ==
  /\ bpc = "searched"
  /\ results = <<>>
  /\ bpc' = "done"
  /\ UNCHANGED <<bulkRest, results, found, bi, added, skipped, processed, appended>>

\* part_000:64-68: the counters are set up and the loop is entered
BulkStart ==
  /\ bpc = "searched"
  /\ results # <<>>
  /\ bpc' = "loop"
  /\ UNCHANGED <<bulkRest, results, found, bi, added, skipped, processed, appended>>

\* part_000:69-71: the loop takes the next result and calls the resolver
BulkBeginResolve ==
  /\ bpc = "loop"
  /\ bi < Len(results)
  /\ bi' = bi + 1
  /\ processed' = Append(processed, bi + 1)
  /\ bpc' = "resolving"
  /\ UNCHANGED <<bulkRest, results, found, added, skipped, appended>>

\* Faulty variant: a failed resolution ends the loop
BulkResolveFail_break ==
  /\ bpc = "resolving"
  /\ skipped' = skipped + 1
  /\ bpc' = "done"
  /\ UNCHANGED <<bulkRest, results, found, bi, added, processed, appended>>

\* part_000:71 and 80-84: the resolver threw: skipped++, continue
BulkResolveFail ==
  /\ bpc = "resolving"
  /\ skipped' = skipped + 1
  /\ bpc' = "loop"
  /\ UNCHANGED <<bulkRest, results, found, bi, added, processed, appended>>

\* part_000:71-72: the resolver returned a url; addTrackToPlaylist is called
BulkResolveOk ==
  /\ bpc = "resolving"
  /\ bpc' = "adding"
  /\ UNCHANGED <<bulkRest, results, found, bi, added, skipped, processed, appended>>

\* part_000:72-79 and playlists.ts:83-85: the track was pushed and saved: added++
BulkAddOk ==
  /\ bpc = "adding"
  /\ found
  /\ appended' = Append(appended, [at |-> bi, id |-> results[bi]])
  /\ added' = added + 1
  /\ bpc' = "loop"
  /\ UNCHANGED <<bulkRest, results, found, bi, skipped, processed>>

\* part_000:72 and 80-84: addTrackToPlaylist threw, "Playlist not found"
\* (playlists.ts:82) or a rejected writeFile (42-46): skipped++, continue
BulkAddFail ==
  /\ bpc = "adding"
  /\ skipped' = skipped + 1
  /\ bpc' = "loop"
  /\ UNCHANGED <<bulkRest, results, found, bi, added, processed, appended>>

\* part_000:85-90: the loop has taken every result: "Done. Added .. skipped .."
BulkDone ==
  /\ bpc = "loop"
  /\ bi = Len(results)
  /\ bpc' = "done"
  /\ UNCHANGED <<bulkRest, results, found, bi, added, skipped, processed, appended>>

BulkNext ==
  \/ BulkNoResults
  \/ BulkStart
  \/ BulkBeginResolve
  \/ BulkResolveFail
  \/ BulkResolveOk
  \/ BulkAddOk
  \/ BulkAddFail
  \/ BulkDone

\* ================================ the limit of the action "add" (part_000)
\* What the user types is a string of at most MaxInput characters
MaxInput == 3
InputChars == {"-", "0", "1", "5", "a"}
Inputs == SeqsUpTo(InputChars, MaxInput)
Digits == <<"0", "1", "2", "3", "4", "5", "6", "7", "8", "9">>
DigitValue == [c \in {Digits[k] : k \in DOMAIN Digits} |->
                 (CHOOSE k \in DOMAIN Digits : Digits[k] = c) - 1]
IsDigit(c) == c \in DOMAIN DigitValue

\* The longest prefix of q that consists of digits
RECURSIVE DigitPrefix(_)
DigitPrefix(q) ==
  IF q = <<>> \/ ~IsDigit(Head(q)) THEN <<>>
  ELSE <<Head(q)>> \o DigitPrefix(Tail(q))

\* The number a string of digits denotes in base 10
RECURSIVE Decimal(_)
Decimal(q) ==
  IF q = <<>> THEN 0
  ELSE 10 * Decimal(SubSeq(q, 1, Len(q) - 1)) + DigitValue[q[Len(q)]]

\* parseInt(str, 10): an optional sign and the digits that follow it; NaN when
\* no digit follows
ParseInt(str) ==
  LET neg == str # <<>> /\ Head(str) = "-"
      digits == DigitPrefix(IF neg THEN Tail(str) ELSE str) IN
    IF digits = <<>> THEN [nan |-> TRUE, val |-> 0]
    ELSE [nan |-> FALSE, val |-> IF neg THEN 0 - Decimal(digits) ELSE Decimal(digits)]

\* a || b for a string a and for a number a
OrString(a, b) == IF a = <<>> THEN b ELSE a
OrNumber(a, b) == IF a.nan \/ a.val = 0 THEN b ELSE a.val
Max(a, b) == IF a >= b THEN a ELSE b
Min(a, b) == IF a <= b THEN a ELSE b

\* The limit is not modelled in this run
LimitIdle ==
  /\ limitInput = <<>>
  /\ lpc = "none"
  /\ limit = 0

\* part_000:50-53: the prompt has returned
LimitInit ==
  /\ limitInput \in Inputs
  /\ lpc = "asked"
  /\ limit = 0

limitRest == <<coreVars, searchVars, bulkVars, timeVars, browserVars>>

\* part_000:54-57: Math.max(1, Math.min(50, parseInt(limitInput || "5", 10) || 5))
ComputeLimit ==
  /\ lpc = "asked"
  /\ limit' = Max(1, Min(50, OrNumber(ParseInt(OrString(limitInput, <<"5">>)), 5)))
  /\ lpc' = "computed"
  /\ UNCHANGED <<limitRest, limitInput>>

LimitNext == ComputeLimit

\* =========================== formatTime and parseDuration (index.ts:1-22)
\* The arguments: every number of seconds up to MaxSeconds, and the numbers
\* around ten hours
MaxSeconds == 3700
SecondsArgs == (0..MaxSeconds) \cup {36000 - 1 + k : k \in 0..61}

\* Number.prototype.toString of a non-negative integer
RECURSIVE ToDigits(_)
ToDigits(n) ==
  IF n < 10 THEN <<Digits[n + 1]>>
  ELSE ToDigits(n \div 10) \o <<Digits[(n % 10) + 1]>>

\* String.prototype.padStart(2, "0")
PadStart2(str) == IF Len(str) < 2 THEN <<"0">> \o str ELSE str

\* String.prototype.split(":")
RECURSIVE SplitColon(_)
SplitColon(str) ==
  IF \A k \in DOMAIN str : str[k] # ":" THEN <<str>>
  ELSE LET at == CHOOSE k \in DOMAIN str :
                   str[k] = ":" /\ \A j \in 1..(k - 1) : str[j] # ":" IN
         <<SubSeq(str, 1, at - 1)>> \o SplitColon(SubSeq(str, at + 1, Len(str)))

\* index.ts:14-16
Hours(n) == n \div 3600
\* Faulty variant: the minutes are not reduced modulo the hour
Minutes_ofTotal(n) == n \div 60
Minutes(n) == (n % 3600) \div 60
Seconds(n) == n % 60

\* index.ts:13-22: formatTime
FormatTimeOf(n) ==
  IF Hours(n) > 0
  THEN ToDigits(Hours(n)) \o <<":">> \o PadStart2(ToDigits(Minutes(n)))
         \o <<":">> \o PadStart2(ToDigits(Seconds(n)))
  ELSE ToDigits(Minutes(n)) \o <<":">> \o PadStart2(ToDigits(Seconds(n)))

\* Arithmetic on the results of parseInt: NaN if a term is NaN
Weighted(a, w, b) == [nan |-> a.nan \/ b.nan, val |-> a.val * w + b.val]

\* index.ts:1-11: parseDuration
ParseDurationOf(duration) ==
  LET parts == SplitColon(duration) IN
    IF Len(parts) = 3
    THEN Weighted(Weighted(ParseInt(parts[1]), 60, ParseInt(parts[2])), 60,
                  ParseInt(parts[3]))
    ELSE IF Len(parts) = 2
    THEN Weighted(ParseInt(parts[1]), 60, ParseInt(parts[2]))
    ELSE [nan |-> FALSE, val |-> 0]

\* Neither function is modelled in this run
TimeIdle ==
  /\ totalSeconds = 0
  /\ tpc = "none"
  /\ formatted = <<>>
  /\ parsed = [nan |-> FALSE, val |-> 0]

TimeInit ==
  /\ totalSeconds \in SecondsArgs
  /\ tpc = "start"
  /\ formatted = <<>>
  /\ parsed = [nan |-> FALSE, val |-> 0]

timeRest == <<coreVars, searchVars, bulkVars, limitVars, browserVars>>

\* index.ts:13-22: formatTime is applied to the argument
FormatTime ==
  /\ tpc = "start"
  /\ formatted' = FormatTimeOf(totalSeconds)
  /\ tpc' = "formatted"
  /\ UNCHANGED <<timeRest, totalSeconds, parsed>>

\* index.ts:1-11: parseDuration is applied to the string
ParseDuration ==
  /\ tpc = "formatted"
  /\ parsed' = ParseDurationOf(formatted)
  /\ tpc' = "parsed"
  /\ UNCHANGED <<timeRest, totalSeconds, formatted>>

TimeNext == FormatTime \/ ParseDuration

\* ===================== the headless browser (part_003:60-258, index.ts:370-378)
MaxCalls == 4
\* The methods that need the page
PageMethods == {"searchMusic", "playMusic", "pauseResume", "nextSong", "previousSong"}

\* part_003:61-63: the fields of a new instance
NewInstance == [browser |-> FALSE, page |-> FALSE, isInitialized |-> FALSE]
NoCall == [op |-> "none", result |-> "none", launchesBefore |-> 0,
           wasInitialized |-> FALSE]

\* The headless browser is not used in this run: the module was loaded
BrowserIdle ==
  /\ puppeteerYTMusic = "null"
  /\ inst = NewInstance
  /\ ypc = "idle"
  /\ launches = 0
  /\ lastCall = NoCall
  /\ nCalls = 0

browserRest == <<coreVars, searchVars, bulkVars, limitVars, timeVars>>

\* index.ts:372-375 and part_003:65-69: initializePuppeteerYTMusic finds the
\* module variable null, assigns a new instance to it and awaits initialize,
\* which gets to puppeteer.launch
InitializeNew ==
  /\ ypc = "idle" /\ nCalls < MaxCalls
  /\ puppeteerYTMusic = "null"
  /\ puppeteerYTMusic' = "instance"
  /\ inst' = NewInstance
  /\ ypc' = "launching"
  /\ lastCall' = [op |-> "initializePuppeteerYTMusic", result |-> "pending",
                  launchesBefore |-> launches,
                  wasInitialized |-> inst.isInitialized]
  /\ nCalls' = nCalls + 1
  /\ UNCHANGED <<browserRest, launches>>

\* index.ts:373 and 377: the module variable is set: it is returned as it is
InitializeExisting ==
  /\ ypc = "idle" /\ nCalls < MaxCalls
  /\ puppeteerYTMusic = "instance"
  /\ lastCall' = [op |-> "initializePuppeteerYTMusic", result |-> "instance",
                  launchesBefore |-> launches,
                  wasInitialized |-> inst.isInitialized]
  /\ nCalls' = nCalls + 1
  /\ UNCHANGED <<browserRest, puppeteerYTMusic, inst, ypc, launches>>

\* part_003:65-69: initialize called on the instance: it returns at once when
\* isInitialized is set and goes on to puppeteer.launch otherwise
InitializeMethod ==
  /\ ypc = "idle" /\ nCalls < MaxCalls
  /\ puppeteerYTMusic = "instance"
  /\ IF inst.isInitialized
     THEN /\ lastCall' = [op |-> "initialize", result |-> "returned",
                          launchesBefore |-> launches,
                  wasInitialized |-> inst.isInitialized]
          /\ UNCHANGED ypc
     ELSE /\ lastCall' = [op |-> "initialize", result |-> "pending",
                          launchesBefore |-> launches,
                  wasInitialized |-> inst.isInitialized]
          /\ ypc' = "launching"
  /\ nCalls' = nCalls + 1
  /\ UNCHANGED <<browserRest, puppeteerYTMusic, inst, launches>>

\* The call in progress returns: initializePuppeteerYTMusic gives the module
\* variable (index.ts:377), initialize gives nothing (part_003:89-91)
Returned ==
  [lastCall EXCEPT !.result = IF lastCall.op = "initialize" THEN "returned"
                              ELSE "instance"]
\* The call in progress throws what the awaited step threw
Threw == [lastCall EXCEPT !.result = "threw"]

\* part_003:69-81: puppeteer.launch started a browser
LaunchOk ==
  /\ ypc = "launching"
  /\ inst' = [inst EXCEPT !.browser = TRUE]
  /\ launches' = launches + 1
  /\ ypc' = "newPage"
  /\ UNCHANGED <<browserRest, puppeteerYTMusic, lastCall, nCalls>>

\* part_003:69: puppeteer.launch rejected (no browser binary, no display)
LaunchFails ==
  /\ ypc = "launching"
  /\ lastCall' = Threw
  /\ ypc' = "idle"
  /\ UNCHANGED <<browserRest, puppeteerYTMusic, inst, launches, nCalls>>

\* part_003:83: browser.newPage gave a page
NewPageOk ==
  /\ ypc = "newPage"
  /\ inst' = [inst EXCEPT !.page = TRUE]
  /\ ypc' = "userAgent"
  /\ UNCHANGED <<browserRest, puppeteerYTMusic, launches, lastCall, nCalls>>

\* part_003:83: browser.newPage rejected
NewPageFails ==
  /\ ypc = "newPage"
  /\ lastCall' = Threw
  /\ ypc' = "idle"
  /\ UNCHANGED <<browserRest, puppeteerYTMusic, inst, launches, nCalls>>

\* part_003:85-91 and index.ts:377: setUserAgent returned, isInitialized is set
UserAgentOk ==
  /\ ypc = "userAgent"
  /\ inst' = [inst EXCEPT !.isInitialized = TRUE]
  /\ lastCall' = Returned
  /\ ypc' = "idle"
  /\ UNCHANGED <<browserRest, puppeteerYTMusic, launches, nCalls>>

\* part_003:85: setUserAgent rejected
UserAgentFails ==
  /\ ypc = "userAgent"
  /\ lastCall' = Threw
  /\ ypc' = "idle"
  /\ UNCHANGED <<browserRest, puppeteerYTMusic, inst, launches, nCalls>>

\* part_003:93-94, 169-170, 235-248: a method that needs the page
CallPageMethod ==
  /\ ypc = "idle" /\ nCalls < MaxCalls
  /\ puppeteerYTMusic = "instance"
  /\ \E m \in PageMethods :
       lastCall' = [op |-> m,
                    result |-> IF ~inst.page THEN "Browser not initialized" ELSE "ran",
                    launchesBefore |-> launches,
                  wasInitialized |-> inst.isInitialized]
  /\ nCalls' = nCalls + 1
  /\ UNCHANGED <<browserRest, puppeteerYTMusic, inst, ypc, launches>>

\* part_003:250-257: cleanup closes the browser, if there is one, and resets
\* the three fields
Cleanup ==
  /\ ypc = "idle" /\ nCalls < MaxCalls
  /\ puppeteerYTMusic = "instance"
  /\ inst' = IF inst.browser THEN NewInstance ELSE inst
  /\ lastCall' = [op |-> "cleanup", result |-> "returned", launchesBefore |-> launches,
                  wasInitialized |-> inst.isInitialized]
  /\ nCalls' = nCalls + 1
  /\ UNCHANGED <<browserRest, puppeteerYTMusic, ypc, launches>>

BrowserNext ==
  \/ InitializeNew
  \/ InitializeExisting
  \/ InitializeMethod
  \/ LaunchOk
  \/ LaunchFails
  \/ NewPageOk
  \/ NewPageFails
  \/ UserAgentOk
  \/ UserAgentFails
  \/ CallPageMethod
  \/ Cleanup

\* Nothing of the helpers of the commands runs
ExtraIdle == SearchIdle /\ BulkIdle /\ LimitIdle /\ TimeIdle /\ BrowserIdle

\* Nothing of the components that are modelled on their own runs
OtherIdle == CliIdle /\ ResolverIdle /\ ExtraIdle

LibIdle == RoutineIdle /\ StoreIdle /\ OtherIdle

\* ========================================================= specifications
\* One run of the CLI executes one command.
Init ==
  /\ ObsInit
  /\ LibIdle
  /\ \/ cmd = "playlist" /\ PlayInit /\ StreamIdle
     \/ cmd = "stream" /\ StreamInit /\ PlayIdle

Next == PlayNext \/ StreamNext

Spec == Init /\ [][Next]_vars

\* The playlist play loop alone
InitPlay == cmd = "playlist" /\ ObsInit /\ PlayInit /\ StreamIdle /\ LibIdle
SpecPlay == InitPlay /\ [][PlayNext]_vars

\* The process that was sent a termination request exits
KilledChildExit == ChildExit /\ i \in killReq

\* The play loop with the scheduling the claims about progress assume: a
\* process that was sent a termination request eventually exits, and the
\* function, once resumed at the loop boundary, runs on to its end.
SpecPlayFair ==
  /\ InitPlay
  /\ [][PlayNext]_vars
  /\ WF_vars(KilledChildExit)
  /\ WF_vars(StopBreak)
  /\ WF_vars(LoopExit)

\* A step of the function itself or of what it awaits; the stop signal is the
\* one step that need not come
PlayProgress ==
  \/ LoopExit \/ StopBreak \/ BeginResolve \/ SkipNoUrl \/ UseStoredUrl
  \/ ResolveOk \/ ResolveFail
  \/ DetectNone \/ SpawnRunning \/ SpawnNoProcess \/ SpawnThrows
  \/ ChildExit \/ ChildError

\* The play loop on an event loop that runs every continuation that is ready:
\* the function goes on whenever it can, and the resolver, the detection and
\* a process that is not hung come to their end.
SpecPlayTerm ==
  /\ InitPlay
  /\ [][PlayNext]_vars
  /\ WF_vars(PlayProgress)

\* handleYouTubeStream alone
InitStream == cmd = "stream" /\ ObsInit /\ StreamInit /\ PlayIdle /\ LibIdle
SpecStream == InitStream /\ [][StreamNext]_vars

\* Nothing of the play loop or of handleYouTubeStream runs
ObsIdle ==
  /\ player = NoPlayer
  /\ attempted = <<>>
  /\ resolveCalls = <<>>
  /\ detectCalls = 0
  /\ spawned = <<>>
  /\ resFailed = {}
  /\ log = <<>>

\* One call of a routine that spawns the player
InitRoutine ==
  /\ cmd = "routine"
  /\ RoutineInit
  /\ ObsIdle /\ PlayIdle /\ StreamIdle /\ StoreIdle /\ OtherIdle
SpecRoutine == InitRoutine /\ [][RoutineNext]_vars

\* A sequence of operations of the playlist store
InitStore ==
  /\ cmd = "store"
  /\ StoreInit
  /\ ObsIdle /\ PlayIdle /\ StreamIdle /\ RoutineIdle /\ OtherIdle
SpecStore == InitStore /\ [][StoreNext]_vars

\* The store operations on a file system where a read can fail
StoreReadFailsNext == StoreNext \/ CreatePlaylistReadFails
SpecStoreReadFails == InitStore /\ [][StoreReadFailsNext]_vars


\* Two CLI processes, each running one store function on the shared file
InitCli ==
  /\ cmd = "cli"
  /\ CliInit /\ ResolverIdle /\ ExtraIdle
  /\ ObsIdle /\ PlayIdle /\ StreamIdle /\ RoutineIdle
SpecCli == InitCli /\ [][CliNext]_vars

\* One call of getYouTubeAudioStream
InitResolver ==
  /\ cmd = "resolver"
  /\ ResolverInit /\ CliIdle /\ ExtraIdle
  /\ ObsIdle /\ PlayIdle /\ StreamIdle /\ RoutineIdle /\ StoreIdle
SpecResolver == InitResolver /\ [][ResolverNext]_vars

\* One call of searchYouTube
InitSearch ==
  /\ cmd = "search"
  /\ SearchInit /\ BulkIdle /\ LimitIdle /\ TimeIdle /\ BrowserIdle
  /\ ObsIdle /\ PlayIdle /\ StreamIdle /\ RoutineIdle /\ StoreIdle
  /\ CliIdle /\ ResolverIdle
SpecSearch == InitSearch /\ [][SearchNext]_vars

\* The action "add" of the playlist command, from the return of the search
InitBulk ==
  /\ cmd = "add"
  /\ BulkInit /\ SearchIdle /\ LimitIdle /\ TimeIdle /\ BrowserIdle
  /\ ObsIdle /\ PlayIdle /\ StreamIdle /\ RoutineIdle /\ StoreIdle
  /\ CliIdle /\ ResolverIdle
SpecBulk == InitBulk /\ [][BulkNext]_vars

\* The computation of the limit of the action "add"
InitLimit ==
  /\ cmd = "limit"
  /\ LimitInit /\ SearchIdle /\ BulkIdle /\ TimeIdle /\ BrowserIdle
  /\ ObsIdle /\ PlayIdle /\ StreamIdle /\ RoutineIdle /\ StoreIdle
  /\ CliIdle /\ ResolverIdle
SpecLimit == InitLimit /\ [][LimitNext]_vars

\* formatTime followed by parseDuration
InitTime ==
  /\ cmd = "time"
  /\ TimeInit /\ SearchIdle /\ BulkIdle /\ LimitIdle /\ BrowserIdle
  /\ ObsIdle /\ PlayIdle /\ StreamIdle /\ RoutineIdle /\ StoreIdle
  /\ CliIdle /\ ResolverIdle
SpecTime == InitTime /\ [][TimeNext]_vars

\* A sequence of calls on the headless browser in one process
InitBrowser ==
  /\ cmd = "browser"
  /\ BrowserIdle /\ SearchIdle /\ BulkIdle /\ LimitIdle /\ TimeIdle
  /\ ObsIdle /\ PlayIdle /\ StreamIdle /\ RoutineIdle /\ StoreIdle
  /\ CliIdle /\ ResolverIdle
SpecBrowser == InitBrowser /\ [][BrowserNext]_vars

\* handleYouTubeStream from its resolver call to the return of its catch
SpecStreamError == InitResolver /\ [][StreamErrorNext]_vars

\* ====================================================== what was observed
Logged(kind, k) == \E n \in DOMAIN log : log[n] = <<kind, k>>
LogCount(kind) == Cardinality({n \in DOMAIN log : log[n][1] = kind})
AttemptedSet == {attempted[n] : n \in DOMAIN attempted}
SpawnedTracks == {spawned[n].track : n \in DOMAIN spawned}
ResolvedTracks == {resolveCalls[n][1] : n \in DOMAIN resolveCalls}
\* q holds the consecutive indices from, from + 1, ... in this order
ConsecutiveFrom(q, from) == \A n \in DOMAIN q : q[n] = from + n - 1

\* ================================================================= claims

\* C1 (as claimed).  When the play run has ended, every track k whose stream
\* resolution failed has its failure reported, has no player process, and every
\* track after k was attempted; the attempts are in queue order.
C1_AllLaterAttempted ==
  pc = "done" =>
    \A k \in resFailed :
      /\ Logged("resolveFailed", k)
      /\ k \notin SpawnedTracks
      /\ \A j \in (k + 1)..(Len(tracks) - 1) : j \in AttemptedSet
      /\ ConsecutiveFrom(attempted, startIndex)

\* The run was ended before track j by the break at a loop boundary
StoppedBefore(j) == \E m \in 0..j : m < Len(tracks) /\ Logged("finished", m)
\* The run was ended before track j by the return on a missing audio player
NoPlayerBefore(j) == \E m \in 0..(j - 1) : Logged("noPlayer", m)

\* C1 (amended).  A failed stream resolution of track k is reported for k, no
\* player process is spawned for k, and the loop goes on to k + 1: every track
\* after k is attempted, in queue order, unless the run was ended before it by
\* the stop flag observed at a loop boundary or by the missing audio player.
\* The tracks up to k were attempted in queue order from startIndex.
C1_FailureIsolation ==
  \A k \in resFailed :
    /\ Logged("resolveFailed", k)
    /\ k \notin SpawnedTracks
    /\ i > k
    /\ ConsecutiveFrom(attempted, startIndex)
    /\ pc = "done" =>
         \A j \in (k + 1)..(Len(tracks) - 1) :
           j \in AttemptedSet \/ StoppedBefore(j) \/ NoPlayerBefore(j)

\* C1 witness: the run ended, the first track of three failed resolution and
\* the two tracks after it were attempted
C1_Witness ==
  /\ pc = "done"
  /\ 0 \in resFailed
  /\ attempted = <<0, 1, 2>>

\* C2.  A SIGINT delivered while the player process of track k runs sends that
\* process a termination request in the same step, and no player process of a
\* later track is ever spawned.
C2_StopDuringPlayback ==
  \A k \in sigintLive :
    /\ k \in killReq
    /\ \A j \in SpawnedTracks : j <= k

\* C2 witness: the run ended after a SIGINT during the first of several tracks
C2_Witness ==
  /\ pc = "done"
  /\ 0 \in sigintLive
  /\ Len(tracks) > 1
  /\ startIndex = 0

\* C3.  At most one player process of the play run is running; it belongs to
\* the iteration in progress, and none runs when the loop is not awaiting a
\* player, so the process of one track has ended before the next is spawned.
C3_ExclusiveOwnership ==
  /\ Cardinality(live) <= 1
  /\ live \subseteq {i}
  /\ live # {} => pc = "playing" /\ currentChild = i

\* C3 witness: the process of a second spawned track is running
C3_Witness ==
  /\ pc = "playing"
  /\ live # {}
  /\ Len(spawned) >= 2

\* Every entry of the store is a track (the file holds Playlist[] as typed)
WellFormedStore ==
  \A pl \in DOMAIN store : \A t \in DOMAIN store[pl].tracks :
    store[pl].tracks[t].kind = "track"
\* Playlist pl of the store contains a track with the selected id
ContainsSelected(pl) ==
  \E t \in DOMAIN store[pl].tracks : store[pl].tracks[t].id = x
\* handleYouTubeStream returned after the ad-hoc play of the selected track
ReturnedAfterPlay == hpc = "returned" /\ primaryOutcome # "none"

\* C4.  After the ad-hoc play of the track with id x returned, with P the first
\* stored playlist that contains a track with id x and m the (one-based)
\* position of the first such track in P: the continuation attempted exactly
\* the tracks after m, each once and in order (the zero-based indices
\* m .. Len(P) - 1); when no playlist contains x, or m is the last position,
\* nothing was attempted and no continuation was announced.
C4_ContinuationCorrect ==
  (ReturnedAfterPlay /\ WellFormedStore) =>
    IF \E pl \in DOMAIN store : ContainsSelected(pl)
    THEN \E pl \in DOMAIN store : \E m \in DOMAIN store[pl].tracks :
           /\ ContainsSelected(pl)
           /\ \A q \in 1..(pl - 1) : ~ContainsSelected(q)
           /\ store[pl].tracks[m].id = x
           /\ \A u \in 1..(m - 1) : store[pl].tracks[u].id # x
           /\ Len(attempted) = Len(store[pl].tracks) - m
           /\ ConsecutiveFrom(attempted, m)
           /\ LogCount("continuing") = (IF m < Len(store[pl].tracks) THEN 1 ELSE 0)
    ELSE attempted = <<>> /\ LogCount("continuing") = 0

\* C4 witness: the continuation of the second stored playlist attempted two tracks
C4_Witness ==
  /\ ReturnedAfterPlay
  /\ WellFormedStore
  /\ cont = 2
  /\ Len(attempted) = 2

\* C5.  Whatever happens in the continuation, handleYouTubeStream returns the
\* outcome of the playAndAwait call of the selected track: a failure of the
\* lookup or of the loop is caught inside and changes neither the returned
\* value nor the way the function ends.
C5_ContinuationNonFatal ==
  ReturnedAfterPlay => ret = (primaryOutcome = "true")

\* C5 witness: the selected track played, the continuation loop then hit a
\* null entry, and the function has returned
C5_Witness ==
  /\ ReturnedAfterPlay
  /\ primaryOutcome = "true"
  /\ cont > 0
  /\ attempted # <<>>
  /\ ContAt(attempted[Len(attempted)]).kind = "null"

\* C6 (as claimed).  A play run with no audio player, over any non-empty queue,
\* ends with no player process spawned and "no audio player" reported exactly once.
C6_ReportedExactlyOnce ==
  (pc = "done" /\ player = NoPlayer) =>
    spawned = <<>> /\ LogCount("noPlayer") = 1

\* C6 (amended).  A play run with no audio player spawns no player process and
\* reports "no audio player" at most once; when it has ended it has reported
\* it exactly once if some track reached the player step (detectAudioPlayer was
\* called), and not at all otherwise.
C6_NoPlayerRun ==
  (cmd = "playlist" /\ player = NoPlayer) =>
    /\ spawned = <<>>
    /\ LogCount("noPlayer") <= 1
    /\ pc = "done" => (LogCount("noPlayer") = 1 <=> detectCalls >= 1)

\* C6 witness: a run without player from the first track on ended at its third
\* track, the first to reach the player step
C6_Witness ==
  /\ pc = "done"
  /\ player = NoPlayer
  /\ startIndex = 0
  /\ Logged("noPlayer", 2)

\* C7 (as claimed).  Once "no audio player" is reported for a track of a
\* sequence (play loop or continuation), no later track of the sequence has
\* its stream resolved or is attempted.
C7_NoPlayerIsFatal ==
  \A n \in DOMAIN log :
    (log[n][1] = "noPlayer" /\ log[n][2] # Primary) =>
      /\ \A j \in AttemptedSet : j <= log[n][2]
      /\ \A j \in ResolvedTracks : j <= log[n][2]

\* C8.  If SIGINT is delivered while the loop awaits a running player process,
\* and a process that was sent a termination request eventually exits, the
\* loop leaves its wait and the play run ends, also when the process would
\* never exit by itself.
C8_StopUnblocks == (sigintLive # {}) ~> (pc = "done")

\* C8 witness: the run ended after a SIGINT delivered during a process that
\* never exits by itself
C8_Witness ==
  /\ pc = "done"
  /\ sigintLive \cap hung # {}

\* C9 (as claimed).  A failed player of track k (error event, throwing spawn,
\* non-zero exit code) is reported for k, and track k + 1 is attempted.
C9_PlaybackErrorReported ==
  \A k \in failedPlay :
    /\ Logged("playbackError", k)
    /\ (pc = "done" /\ k + 1 < Len(tracks)) => (k + 1) \in AttemptedSet

\* A track entry with neither id nor url
Unplayable(t) == t.kind = "track" /\ t.id = None /\ t.url = None

\* C10.  A track with neither id nor url that a loop comes to is reported as
\* "no playable URL", the resolver is not called for it, no player is spawned
\* for it, and the next track of the sequence, if there is one, is attempted
\* (it has been attempted, or the loop stands at it and is about to attempt it).
\* In the play loop and in the continuation loop.
C10_UnplayableSkipped ==
  /\ cmd = "playlist" =>
       \A k \in AttemptedSet :
         (TrackAt(k).id = None /\ TrackAt(k).url = None) =>
           /\ Logged("noUrl", k)
           /\ k \notin ResolvedTracks
           /\ k \notin SpawnedTracks
           /\ k + 1 < Len(tracks) =>
                \/ (k + 1) \in AttemptedSet
                \/ pc = "loop" /\ i = k + 1 /\ ~stopRequested
  /\ cmd = "stream" =>
       \A k \in AttemptedSet :
         Unplayable(ContAt(k)) =>
           /\ Logged("noUrl", k)
           /\ k \notin ResolvedTracks
           /\ k \notin SpawnedTracks
           /\ k + 1 < Len(ContTracks) =>
                \/ (k + 1) \in AttemptedSet
                \/ hpc = "contLoop" /\ ci = k + 1

\* C10 witness: the continuation skipped an unplayable track and attempted the next
C10_Witness ==
  /\ cmd = "stream"
  /\ \E k \in AttemptedSet : Unplayable(ContAt(k)) /\ (k + 1) \in AttemptedSet

\* C11.  A playAndAwait call never ends in an exception and its promise is
\* resolved once: with no player or a throwing spawn it returns false; after
\* the player was spawned nothing is resolved before the first event, the first
\* event resolves it (false for "error", code === 0 for "close" and "exit"),
\* and every later event, whatever its kind, resolves and reports nothing more.
C11_CompletesOnce ==
  routine = "playAndAwait" =>
    /\ ~crashed
    /\ settleCount <= 1
    /\ routineRet \in {"none", "true", "false"}
    /\ rpc = "returned" => routineRet = "false" /\ settleCount = 0
    /\ (rpc = "awaiting" /\ nEvents = 0) => settled = "pending" /\ routineRet = "none"
    /\ nEvents >= 1 =>
         /\ settleCount = 1
         /\ settled = (IF firstEvent = "zero" THEN "true" ELSE "false")
         /\ routineRet = settled
         /\ reports = (IF firstEvent = "error" THEN 1 ELSE 0)

\* C11 witness: close or exit with code 0 came first and two more events followed
C11_Witness ==
  /\ routine = "playAndAwait"
  /\ firstEvent = "zero"
  /\ nEvents >= 3
  /\ settled = "true"

\* C12 (as claimed).  In each of the three routines an error event of the
\* player process raises no exception: the program keeps running, and when
\* the error event is the child's first event the routine's outcome is the
\* failed value (false) or the skipped track (the loop goes to the next one).
C12_ErrorEventNotRaised ==
  /\ ~crashed
  /\ firstEvent = "error" => routineRet \in {"false", "next"}

\* The argument vector per player name
ArgTable(p, u) ==
  CASE p = "cvlc"   -> <<u, "--intf", "dummy", "--play-and-exit">>
    [] p = "mpv"    -> <<u, "--no-video", "--really-quiet">>
    [] p = "afplay" -> <<u>>
    [] p = "aplay"  -> <<"-f", "cd">>
    [] OTHER        -> <<u>>

\* C13.  The argument vector that playAndAwait and the play loop hand to spawn
\* is the one of the table for the detected player and the url; and for every
\* player name, one outside the candidate lists included, and every url the
\* two routines build the same vector, the one of the table.
C13_ArgumentShaping ==
  /\ (routine \in {"playAndAwait", "playLoop"} /\ rpc \in {"awaiting", "returned"}
        /\ audioPlayer # NoPlayer)
       => spawnArgs = ArgTable(audioPlayer, PlayUrl)
  /\ \A p \in Candidates \cup {"vlc"} : \A u \in {PlayUrl, "v"} :
       /\ PlayAndAwaitArgs(p, u) = ArgTable(p, u)
       /\ PlayLoopArgs(p, u) = ArgTable(p, u)

\* C13 witness: the play loop spawned aplay, the last candidate on linux
C13_Witness ==
  /\ routine = "playLoop"
  /\ rpc = "awaiting"
  /\ audioPlayer = "aplay"
  /\ spawnArgs = <<"-f", "cd">>

\* C14.  detectAudioPlayer probes the candidates of the platform in list
\* order; a candidate whose probe errors, throws or exits non-zero is passed
\* over; the result is the first candidate whose probe exits with 0, and it
\* is the last one probed; the result is null only after every candidate was
\* probed and none succeeded; each outcome of a probe leads to one of these.
C14_PlayerDiscovery ==
  LET list == PlatformPlayers(platform) IN
    /\ Len(probed) <= Len(list)
    /\ \A n \in DOMAIN probed : probed[n] = list[n]
    /\ \A n \in 1..(Len(probed) - 1) : probe[probed[n]] # "ok"
    /\ audioPlayer \in Candidates \cup {NoPlayer, "pending"}
    /\ audioPlayer = "pending" =>
         /\ rpc \in {"idle", "detecting"}
         /\ \A n \in DOMAIN probed : probe[probed[n]] # "ok"
    /\ audioPlayer \in Candidates =>
         /\ probed # <<>>
         /\ audioPlayer = probed[Len(probed)]
         /\ probe[audioPlayer] = "ok"
    /\ audioPlayer = NoPlayer =>
         /\ probed = list
         /\ \A n \in DOMAIN list : probe[list[n]] # "ok"

\* C14 witness: on darwin the probe of afplay threw, cvlc was returned and
\* mpv, which would have succeeded too, was not probed
C14_Witness ==
  /\ platform = "darwin"
  /\ probe["afplay"] = "throws"
  /\ probe["mpv"] = "ok"
  /\ audioPlayer = "cvlc"
  /\ probed = <<"afplay", "cvlc">>
  /\ rpc = "awaiting"

\* C15.  After the ad-hoc play of the track with id x returned, the playlist
\* the lookup settled on is the first stored playlist that contains a track
\* with id x, in store order; when the first such track is the last track of
\* that playlist nothing is continued, whatever the later playlists contain.
C15_FirstContainingOnly ==
  (ReturnedAfterPlay /\ WellFormedStore) =>
    \A pl \in DOMAIN store :
      (ContainsSelected(pl) /\ \A q \in 1..(pl - 1) : ~ContainsSelected(q)) =>
        /\ cont = pl
        /\ ScanTracks(store[pl].tracks, x, 1) = Len(store[pl].tracks) =>
             /\ attempted = <<>>
             /\ resolveCalls = <<<<Primary, x>>>>
             /\ LogCount("continuing") = 0

\* C15 witness: the track is the last one of the first playlist and has a
\* successor in the second playlist; the function returned without continuing
C15_Witness ==
  /\ ReturnedAfterPlay
  /\ WellFormedStore
  /\ Len(store) = 2
  /\ ScanTracks(store[1].tracks, x, 1) = Len(store[1].tracks)
  /\ Len(store[1].tracks) > 0
  /\ ScanTracks(store[2].tracks, x, 1) > 0
  /\ ScanTracks(store[2].tracks, x, 1) < Len(store[2].tracks)
  /\ attempted = <<>>

\* C16 (as claimed).  When the process of the play command has ended, its exit
\* code is non-zero if no audio player was found for the requested track, and
\* 0 if the requested track was played, whatever happened to the tracks of
\* the continuation.
C16_ExitCodeReflectsOutcome ==
  exitCode # NoExit =>
    /\ Logged("noPlayer", Primary) => exitCode # 0
    /\ primaryOutcome = "true" => exitCode = 0

\* C17 (as claimed).  No two playlists of the persisted collection have the
\* same id.
C17_UniqueIds ==
  \A j \in DOMAIN file : \A k \in DOMAIN file : j # k => file[j].id # file[k].id

\* Playlist k of the collection lists is the first, in collection order, whose
\* id or name equals xx
IsFirstMatch(lists, xx, k) ==
  /\ k \in DOMAIN lists
  /\ lists[k].id = xx \/ lists[k].name = xx
  /\ \A j \in 1..(k - 1) : lists[j].id # xx /\ lists[j].name # xx
NoMatch(lists, xx) == \A k \in DOMAIN lists : lists[k].id # xx /\ lists[k].name # xx

\* C18.  getPlaylist, addTrackToPlaylist and removeTrackFromPlaylist called
\* with the identifier x on a collection select the first playlist, in
\* collection order, whose id or name equals x, and none when no playlist
\* matches; getPlaylist returns undefined exactly in that case.
C18_FirstMatchLookup ==
  lastOp.op \in {"get", "add", "remove"} =>
    /\ IF NoMatch(lastOp.before, lastOp.x)
       THEN lastOp.sel = 0
       ELSE IsFirstMatch(lastOp.before, lastOp.x, lastOp.sel)
    /\ lastOp.op = "get" =>
         (lastOp.result = "undefined" <=> NoMatch(lastOp.before, lastOp.x))
    /\ lastOp.op \in {"add", "remove"} =>
         (lastOp.result = "notFound" <=> NoMatch(lastOp.before, lastOp.x))

\* C18 witness: a track was added under an identifier that is the id of the
\* first playlist and the name of the second one
C18_Witness ==
  /\ lastOp.op = "add"
  /\ lastOp.result = "ok"
  /\ lastOp.sel = 1
  /\ Len(lastOp.before) = 2
  /\ lastOp.before[1].id = lastOp.x
  /\ lastOp.before[1].name # lastOp.x
  /\ lastOp.before[2].name = lastOp.x

\* Playlist k is the same in the collection as it was before the last operation
SamePlaylist(k) == file[k] = lastOp.before[k]
\* Playlist k kept everything but its tracks
SameHeader(k) ==
  /\ file[k].id = lastOp.before[k].id
  /\ file[k].name = lastOp.before[k].name
  /\ file[k].createdAt = lastOp.before[k].createdAt

\* C19.  After a successful addTrackToPlaylist(x, t) the track list of the
\* selected playlist is its previous list followed by one track that has t's
\* id, title and url and the time of the append as addedAt, not the addedAt of
\* t; the collection has the same playlists in the same order and every other
\* playlist is as it was.
C19_AddAppendOnly ==
  (lastOp.op = "add" /\ lastOp.result = "ok") =>
    LET b == lastOp.before
        s == lastOp.sel
        t == lastOp.track
    IN /\ Len(file) = Len(b)
       /\ \A k \in DOMAIN b : k # s => SamePlaylist(k)
       /\ SameHeader(s)
       /\ Len(file[s].tracks) = Len(b[s].tracks) + 1
       /\ \A n \in DOMAIN b[s].tracks : file[s].tracks[n] = b[s].tracks[n]
       /\ LET new == file[s].tracks[Len(file[s].tracks)] IN
            /\ Get(new, "id") = t.id
            /\ Get(new, "title") = t.title
            /\ Get(new, "url") = t.url
            /\ Get(new, "addedAt") = ToISO(now)
            /\ Get(new, "addedAt") # t.addedAt

\* C19 witness: a track without id was appended to the second playlist, which
\* held a track already
C19_Witness ==
  /\ lastOp.op = "add"
  /\ lastOp.result = "ok"
  /\ lastOp.sel = 2
  /\ lastOp.track.id = Undef
  /\ Len(lastOp.before[2].tracks) = 1
  /\ Len(file[2].tracks) = 2

C21_StoreErrorsNoChange ==
  lastOp.op \in {"add", "remove"} =>
    /\ NoMatch(lastOp.before, lastOp.x) => lastOp.result = "notFound"
    /\ (lastOp.op = "remove" /\ ~NoMatch(lastOp.before, lastOp.x)) =>
         (lastOp.result = "range" <=>
            (lastOp.index < 0 \/ lastOp.index >= Len(lastOp.before[lastOp.sel].tracks)))
    /\ lastOp.result \in {"notFound", "range"} => file = lastOp.before

\* C21 witness: a removal at index -1 from a playlist with a track failed
C21_Witness ==
  /\ lastOp.op = "remove"
  /\ lastOp.result = "range"
  /\ lastOp.index = -1
  /\ Len(lastOp.before[lastOp.sel].tracks) = 1
  /\ file = lastOp.before

TracksEmbed(p, q) ==
  \E m \in [DOMAIN p -> DOMAIN q] :
    /\ \A a, b \in DOMAIN p : a < b => m[a] < m[b]
    /\ \A a \in DOMAIN p : p[a] = q[m[a]]

\* Every playlist of lists is a playlist of olds, in the same order, with the
\* same id and createdAt, and every track of it is a track of the older one
\* with the same fields
StampsEmbed(lists, olds) ==
  \E m \in [DOMAIN lists -> DOMAIN olds] :
    /\ \A a, b \in DOMAIN lists : a < b => m[a] < m[b]
    /\ \A a \in DOMAIN lists :
         /\ lists[a].id = olds[m[a]].id
         /\ lists[a].createdAt = olds[m[a]].createdAt
         /\ TracksEmbed(lists[a].tracks, olds[m[a]].tracks)

\* The persisted collection without what the last operation inserted
Survivors ==
  IF lastOp.op = "create" /\ lastOp.result = "ok"
  THEN SubSeq(file, 1, Len(file) - 1)
  ELSE IF lastOp.op = "add" /\ lastOp.result = "ok"
  THEN [file EXCEPT ![lastOp.sel].tracks = SubSeq(@, 1, Len(@) - 1)]
  ELSE file

\* C23.  After every store operation, each playlist that is in the collection
\* and was not created by the operation was in the collection before it with
\* the same id and createdAt, and each of its tracks that was not inserted by
\* the operation was in it before with the same addedAt.
C23_ImmutableStamps ==
  lastOp.op # "none" => StampsEmbed(Survivors, lastOp.before)

\* C23 witness: a track was appended at time 2 to a playlist created at time 1
\* that held a track added at time 1, and the older stamps are still there
C23_Witness ==
  /\ lastOp.op = "add"
  /\ lastOp.result = "ok"
  /\ Len(file[lastOp.sel].tracks) = 2
  /\ file[lastOp.sel].createdAt = ToISO(1)
  /\ file[lastOp.sel].tracks[1].addedAt = ToISO(1)
  /\ file[lastOp.sel].tracks[2].addedAt = ToISO(2)

\* Number of playlists and tracks in a collection
Items(lists) == Len(lists) + SumSeq([k \in DOMAIN lists |-> Len(lists[k].tracks)])

\* What process p inserted is in the persisted collection
CliPresent(p) ==
  IF cli[p].kind = "add"
  THEN \E k \in DOMAIN file : \E n \in DOMAIN file[k].tracks :
         file[k].tracks[n] = cli[p].wrote
  ELSE \E k \in DOMAIN file :
         /\ file[k].id = cli[p].wrote.id
         /\ file[k].name = cli[p].wrote.name
         /\ file[k].createdAt = cli[p].wrote.createdAt

CliAllDone == \A p \in CliProcs : cli[p].pc = "done"

\* C24.  When the two store mutations ran one after the other (neither
\* process loaded the file between the load and the save of the other), the
\* persisted collection holds the insertion of each process that succeeded:
\* the one playlist of the start plus one item per success.  (That an
\* interleaved run loses an update is the reachable state C24_Witness.)
C24_SerialKeepsBoth ==
  (CliAllDone /\ \A p \in CliProcs : ~cli[p].concurrent) =>
    /\ \A p \in CliProcs : cli[p].result = "ok" => CliPresent(p)
    /\ Items(file) = 1 + Cardinality({p \in CliProcs : cli[p].result = "ok"})

\* C24 witness: the load and save steps interleaved, both functions returned
\* without an error, and the insertion of process 1 is not in the file
C24_Witness ==
  /\ CliAllDone
  /\ cli[2].concurrent
  /\ \A p \in CliProcs : cli[p].result = "ok"
  /\ ~CliPresent(1)
  /\ CliPresent(2)
  /\ Items(file) = 2

\* The rules of the classification in the order of the specification: what
\* the message mentions, and the message of the error that is thrown
ClassRules ==
  << [mentions |-> <<"functions">>,
      gives |-> <<"YouTube stream extraction failed. This may be due to YouTube updates. Try updating ytdl-core or use a different video.">>],
     [mentions |-> <<"Sign in to confirm">>,
      gives |-> <<"YouTube requires sign-in verification. Try using a VPN or different IP address.">>],
     [mentions |-> <<"Video unavailable">>,
      gives |-> <<"This video is not available for streaming.">>],
     [mentions |-> <<"Private video">>,
      gives |-> <<"This is a private video and cannot be streamed.">>] >>

RuleMatches(n, msg) == Includes(msg, ClassRules[n].mentions)

\* C25.  A finished call of getYouTubeAudioStream called ytdlp.getInfoAsync
\* once; it returned the url getAudioStream gave, or it threw one error: that
\* of the first rule whose text the message of getAudioStream's error
\* mentions, and the generic "Stream extraction error" with that message
\* when no rule matches.
C25_ClassifiedFailure ==
  gpc = "done" =>
    /\ infoCalls = 1
    /\ inner.kind = "url" => outcome = inner
    /\ inner.kind = "error" =>
         /\ outcome.kind = "error"
         /\ \A n \in DOMAIN ClassRules :
              (RuleMatches(n, inner.value) /\ \A m \in 1..(n - 1) : ~RuleMatches(m, inner.value))
                => outcome.value = ClassRules[n].gives
         /\ (\A n \in DOMAIN ClassRules : ~RuleMatches(n, inner.value))
              => outcome.value = <<"Stream extraction error: ">> \o inner.value

\* C25 witness: the message mentioned both the sign-in text and "functions",
\* and the call threw the extraction failure
C25_Witness ==
  /\ gpc = "done"
  /\ ytdlp.msg = <<"Sign in to confirm", "functions">>
  /\ outcome.kind = "error"
  /\ outcome.value = ClassRules[1].gives
  /\ infoCalls = 1

\* C26.  Once the stop signal has been raised in a playlist play run, no step
\* starts a player process.
C26_NoStartAfterStop == [][stopRequested => live' \subseteq live]_vars

\* C27.  In one playlist play run detectAudioPlayer is invoked at most once.
C27_DetectOnce == cmd = "playlist" => detectCalls <= 1

\* The handle is the current track's child exactly while the loop awaits the
\* end of that child
HandleTracksPlayback ==
  cmd = "playlist" =>
    IF pc = "playing" THEN currentChild = i ELSE currentChild = NoChild

\* A stop signal handled while the loop is not awaiting a child sets the flag
\* and requests no termination
QuietStop ==
  (Sigint /\ pc # "playing") => (stopRequested' /\ killReq' = killReq)

\* C28.  currentChild is non-null exactly from the spawn of a track's player
\* until that process reports close, exit or error; it is null between
\* tracks, during stream resolution and player detection and after the last
\* track; a stop signal that arrives then sets the stop flag and sends no
\* termination request.
C28_HandleTracksLiveness == []HandleTracksPlayback /\ [][QuietStop]_vars

\* C28 witness: track 0 was played to its end without a stop, the signal came
\* during the resolution of a later track, and nothing was sent a
\* termination request
C28_Witness ==
  /\ cmd = "playlist"
  /\ pc = "resolving"
  /\ Len(spawned) = 1
  /\ spawned[1].track < i
  /\ stopRequested
  /\ killReq = {}
  /\ currentChild = NoChild

\* Number of entries of q that concern track k, under the projection at
TimesIn(q, at(_), k) == Cardinality({n \in DOMAIN q : at(q[n]) = k})
ResolvedTrackOf(c) == c[1]
SpawnedTrackOf(c) == c.track

\* C29.  In a playlist play run the indices of the attempted tracks are
\* strictly increasing and the first of them is startIndex; for each track the
\* stream resolver is called at most once and at most one player process is
\* spawned, whatever failed before.
C29_StrictOrderNoRetry ==
  cmd = "playlist" =>
    /\ \A n, m \in DOMAIN attempted : n < m => attempted[n] < attempted[m]
    /\ attempted # <<>> => attempted[1] = startIndex
    /\ \A k \in 0..(Len(tracks) - 1) :
         /\ TimesIn(resolveCalls, ResolvedTrackOf, k) <= 1
         /\ TimesIn(spawned, SpawnedTrackOf, k) <= 1

\* C29 witness: the resolution of track 0 failed, the playback of track 1
\* failed, and track 2 was attempted after them, each once
C29_Witness ==
  /\ cmd = "playlist"
  /\ startIndex = 0
  /\ 0 \in resFailed
  /\ 1 \in failedPlay
  /\ attempted = <<0, 1, 2>>
  /\ TimesIn(resolveCalls, ResolvedTrackOf, 0) = 1
  /\ TimesIn(spawned, SpawnedTrackOf, 1) = 1

\* Every resolver call and every player process comes to its end
CallsEnd == []<>(pc \notin {"resolving", "playing"})

\* The step that ends the run is the loop condition failing, the stop flag
\* seen at the top of the loop body, or the detection finding no player
EndsForAReason ==
  (pc # "done" /\ pc' = "done") =>
    \/ pc = "loop" /\ i >= Len(tracks)
    \/ pc = "loop" /\ i < Len(tracks) /\ stopRequested
    \/ pc = "detecting" /\ player = NoPlayer

\* C30.  If every resolver call returns or fails and every spawned player
\* process reports its end, the playlist play loop terminates; it ends
\* because the index ran past the end of the queue, because the stop flag was
\* seen at a loop boundary, or because no audio player was found.
C30_Terminates == (CallsEnd => <>(pc = "done")) /\ [][EndsForAReason]_vars

\* C30 witness: a run over three tracks ended past the end of the queue after
\* a failed resolution and two player processes
C30_Witness ==
  /\ cmd = "playlist"
  /\ pc = "done"
  /\ Len(tracks) = 3
  /\ i = 3
  /\ Len(spawned) = 2
  /\ resFailed # {}
  /\ ~stopRequested

\* The track with index k of the queue the command plays
QueueAt(k) == IF cmd = "playlist" THEN TrackAt(k) ELSE ContAt(k)

\* C31.  For a track of the queue that has a stored url the stream resolver is
\* never called and the url handed to the player is the stored one; the
\* resolver is called only for a track without url that has an id, and with
\* that id.
C31_StoredUrlPrecedence ==
  /\ \A n \in DOMAIN resolveCalls :
       resolveCalls[n][1] # Primary =>
         /\ QueueAt(resolveCalls[n][1]).url = None
         /\ QueueAt(resolveCalls[n][1]).id # None
         /\ resolveCalls[n][2] = QueueAt(resolveCalls[n][1]).id
  /\ \A n \in DOMAIN spawned :
       (spawned[n].track # Primary /\ QueueAt(spawned[n].track).url # None) =>
         /\ spawned[n].url = QueueAt(spawned[n].track).url
         /\ spawned[n].track \notin ResolvedTracks

\* C31 witness: a track that has both an id and a stored url was played from
\* the stored url, and another track of the queue was resolved by its id
C31_Witness ==
  /\ cmd = "playlist"
  /\ \E n \in DOMAIN spawned :
       /\ TrackAt(spawned[n].track).id # None
       /\ spawned[n].url = StoredUrl
       /\ spawned[n].track \notin ResolvedTracks
  /\ \E n \in DOMAIN spawned : spawned[n].url = ResolvedUrl(TrackAt(spawned[n].track).id)
  /\ resolveCalls # <<>>

\* The position of the playlist getPlaylist(xx) returns from lists, 0 when it
\* returns undefined
FoundAt(lists, xx) == FirstTrue([k \in DOMAIN lists |-> GetMatch(lists[k], xx)], 1)

\* C32.  deletePlaylist(x) removes from the persisted collection the playlist
\* that getPlaylist(x) returns, and no other playlist.
C32_DeleteRemovesOne ==
  (lastOp.op = "delete" /\ FoundAt(lastOp.before, lastOp.x) # 0) =>
    file = Splice1(lastOp.before, FoundAt(lastOp.before, lastOp.x) - 1)

\* The resolver failed with its sign-in classification
SignInRequired ==
  /\ outcome.kind = "error"
  /\ outcome.value = <<"YouTube requires sign-in verification. Try using a VPN or different IP address.">>

\* C33.  When the resolution for the selected track failed because the
\* provider requires sign-in verification, the catch of handleYouTubeStream
\* reports the stream error, shows the guidance box and returns false.
C33_SignInGuidance ==
  (gpc = "handled" /\ SignInRequired) =>
    /\ caught.reported
    /\ caught.guidance
    /\ caught.ret = "false"

\* C34.  searchYouTube returns one result per item of the response, in the
\* order of the response, and each result that has an id has the duration of
\* the video with that id.
C34_OwnDuration ==
  (spc = "done" /\ searchResp.hasItems) =>
    /\ Len(searchOut) = Len(searchResp.items)
    /\ \A k \in DOMAIN searchOut :
         /\ searchOut[k].id = searchResp.items[k]
         /\ searchOut[k].id # None => searchOut[k].duration = DurationOf(searchOut[k].id)

\* C35.  createPlaylist does not fail, whatever the read of the file did, and
\* every playlist that was persisted before the call is in the persisted
\* collection after it.
C35_ReadFailureKeepsData ==
  lastOp.op = "create" =>
    /\ lastOp.result = "ok"
    /\ \A k \in DOMAIN lastOp.before : \E j \in DOMAIN file : file[j] = lastOp.before[k]

\* C36.  When the action "add" has ended over a non-empty list of results, the
\* loop body ran once for each result, in order, whatever failed on the way;
\* added + skipped is the number of results; and added is the number of
\* tracks that were appended.  The counts agree at every step before, too.
C36_BulkAccounting ==
  /\ bpc \in {"loop", "done"} => added + skipped = bi
  /\ added = Len(appended)
  /\ (bpc = "done" /\ results # <<>>) =>
       /\ processed = [k \in 1..Len(results) |-> k]
       /\ added + skipped = Len(results)

\* C36 witness: of three results the second was skipped and the first and the
\* third were appended
C36_Witness ==
  /\ bpc = "done"
  /\ Len(results) = 3
  /\ added = 2
  /\ skipped = 1
  /\ appended = <<[at |-> 1, id |-> results[1]], [at |-> 3, id |-> results[3]]>>

\* The input is an integer numeral: digits, with or without a sign in front
IsIntegerInput(str) ==
  LET body == IF str # <<>> /\ Head(str) = "-" THEN Tail(str) ELSE str IN
    body # <<>> /\ \A k \in DOMAIN body : IsDigit(body[k])
IntegerOf(str) ==
  IF Head(str) = "-" THEN 0 - Decimal(Tail(str)) ELSE Decimal(str)
\* The input is empty or has no digit in it
HasNoDigit(str) == \A k \in DOMAIN str : ~IsDigit(str[k])

\* C37.  The limit passed to the search is an integer in 1..50; an integer
\* input n in 1..50 gives n, one above 50 gives 50, one below 1 gives 1, and
\* an empty input or one without a digit gives 5.
C37_LimitClamped ==
  lpc = "computed" =>
    /\ limit \in 1..50
    /\ IsIntegerInput(limitInput) =>
         LET n == IntegerOf(limitInput) IN
           /\ (1 <= n /\ n <= 50) => limit = n
           /\ n > 50 => limit = 50
           /\ n < 1 => limit = 1
    /\ HasNoDigit(limitInput) => limit = 5

\* A field of two digits that denotes a number in 0..59
IsSexagesimal(str) ==
  /\ Len(str) = 2
  /\ \A k \in DOMAIN str : IsDigit(str[k])
  /\ Decimal(str) \in 0..59

\* C38.  parseDuration(formatTime(n)) = n; formatTime(n) is "m:ss" for
\* n < 3600 and "h:mm:ss" otherwise, the minutes (when the hours are shown)
\* and the seconds being two digits that denote a number in 0..59.
C38_TimeRoundTrip ==
  /\ tpc \in {"formatted", "parsed"} =>
       LET parts == SplitColon(formatted) IN
         IF totalSeconds < 3600
         THEN /\ Len(parts) = 2
              /\ parts[1] = ToDigits(totalSeconds \div 60)
              /\ IsSexagesimal(parts[2])
         ELSE /\ Len(parts) = 3
              /\ parts[1] = ToDigits(totalSeconds \div 3600)
              /\ IsSexagesimal(parts[2])
              /\ IsSexagesimal(parts[3])
  /\ tpc = "parsed" => parsed = [nan |-> FALSE, val |-> totalSeconds]

\* C38 witness: 36005 seconds were formatted as 10:00:05 and parsed back
C38_Witness ==
  /\ tpc = "parsed"
  /\ totalSeconds = 36005
  /\ formatted = <<"1", "0", ":", "0", "0", ":", "0", "5">>
  /\ parsed.val = 36005

\* The instance initializePuppeteerYTMusic returned has completed initialize
ReturnedInitialized ==
  (lastCall.op = "initializePuppeteerYTMusic" /\ lastCall.result = "instance") =>
    inst.browser /\ inst.page /\ inst.isInitialized

\* initialize that found the instance initialized returned without a launch
NoSecondBrowser ==
  (lastCall.op = "initialize" /\ lastCall.wasInitialized) =>
    /\ lastCall.result = "returned"
    /\ launches = lastCall.launchesBefore
    /\ inst.browser /\ inst.page

\* After cleanup the instance is as new, and a method that needs the page,
\* called on an instance without page, fails with "Browser not initialized"
CleanupResets ==
  /\ lastCall.op = "cleanup" => inst = NewInstance
  /\ (lastCall.op \in PageMethods /\ ~inst.isInitialized /\ ~inst.page) =>
       lastCall.result = "Browser not initialized"

\* C39.  Whenever initializePuppeteerYTMusic returns an instance, the
\* instance has completed initialize (browser and page present), also after
\* an earlier failed initialization; initialize on an initialized instance
\* launches no second browser; after cleanup the instance is uninitialized
\* and the methods that need the page fail with "Browser not initialized".
C39_BrowserLifecycle == ReturnedInitialized /\ NoSecondBrowser /\ CleanupResets

====
